---------------------------- MODULE Spec2Model ----------------------------
(***************************************************************************)
(* A model of the chunk storage (world/chunk.rs) and of the chunk          *)
(* generation pipeline (world/block.rs) of CubeGameClone.                  *)
(*                                                                         *)
(* Vectors are sequences: the Rust index i is the TLA+ index i + 1.        *)
(* A panic is an outcome of its own ("Panic"), distinct from a returned    *)
(* error ("Err"); a panicked ChunkData takes no further step.              *)
(***************************************************************************)
EXTENDS Integers, Sequences, FiniteSets, TLC

(***************************************************************************)
(* Program constants.                                                      *)
(***************************************************************************)
CHUNK_SIZE == 32
BLOCKS_PER_CHUNK == CHUNK_SIZE * CHUNK_SIZE * CHUNK_SIZE
DOUBLE_BLOCKS_PER_CHUNK == BLOCKS_PER_CHUNK * 2
\* the number of values of a u8: `palette.len() > 256`, `palette.len() == 256`
U8_RANGE == 256
\* the number of values of a u16 (PaletteEntry::ref_count)
U16_RANGE == 65536

(***************************************************************************)
(* Bounds of the model.                                                    *)
(***************************************************************************)
\* how many calls on the ChunkData one behaviour makes
MaxOps == 2
\* how many requests (queue_chunk_generation, queue_chunk_despawn) one behaviour makes
MaxRequests == 3
\* how many results wait in finished_meshing when the upload stage is observed
MaxQueue == 3

(***************************************************************************)
(* usize and i32.  TLC's integers are 32 bits wide, so the value           *)
(* 2^64 + v that `v as usize` gives for a negative i32 v is represented by *)
(* USIZE_WRAP + v: every comparison the code makes on it (>= CHUNK_SIZE)   *)
(* has the same outcome, and `as i32` maps it back to v.                   *)
(***************************************************************************)
USIZE_WRAP == 2 ^ 30
as_usize(v) == IF v < 0 THEN USIZE_WRAP + v ELSE v
as_i32(u) == IF u >= USIZE_WRAP \div 2 THEN u - USIZE_WRAP ELSE u

(***************************************************************************)
(* Results.                                                                *)
(***************************************************************************)
Ok(v) == [tag |-> "Ok", val |-> v]
Err(e) == [tag |-> "Err", val |-> e]
Panic == [tag |-> "Panic", val |-> "panic"]
OutOfBounds(x, y, z) == [kind |-> "OutOfBounds", pos |-> <<as_i32(x), as_i32(y), as_i32(z)>>]

(***************************************************************************)
(* BlockState: a block id and its state properties (here a number names    *)
(* one assignment of the properties).  Equality is structural.             *)
(***************************************************************************)
BlockState(id, props) == [block |-> id, state |-> props]
is_air(b) == b.block = "air"
AirState == BlockState("air", 0)
StoneState == BlockState("stone", 0)
DirtState == BlockState("dirt", 0)
PlanksState == BlockState("oak_planks", 0)
GrassState == BlockState("grass", 0)

(***************************************************************************)
(* PaletteEntry                                                            *)
(***************************************************************************)
PaletteEntry_new(state) == [ref_count |-> 0, block |-> state]
is_free(p) == p.ref_count = 0

\* vec![0; n]
zeros(n) == SubSeq([j \in 1..n |-> 0], 1, n)

xyz_to_index(x, y, z) == (CHUNK_SIZE * CHUNK_SIZE * y) + (CHUNK_SIZE * x) + z

(***************************************************************************)
(* ChunkData                                                               *)
(***************************************************************************)
with_data(data, palette) ==
    LET double_bytes == Len(palette) > U8_RANGE
    IN  IF (Len(data) = BLOCKS_PER_CHUNK /\ ~double_bytes)
           \/ (Len(data) = DOUBLE_BLOCKS_PER_CHUNK /\ double_bytes)
        THEN Ok([palette |-> palette, data |-> data,
                 double_bytes |-> double_bytes, is_single |-> FALSE])
        ELSE Panic

single(state) ==
    [palette |-> << PaletteEntry_new(state) >>, data |-> << >>,
     double_bytes |-> FALSE, is_single |-> TRUE]

block_at_index(c, index) ==
    IF c.is_single THEN Ok(0)
    ELSE IF c.double_bytes
         THEN LET scaled_index == index * 2
              IN  IF scaled_index + 1 >= Len(c.data) THEN Panic
                  ELSE Ok(c.data[scaled_index + 2] * U8_RANGE + c.data[scaled_index + 1])
         ELSE IF index >= Len(c.data) THEN Panic
              ELSE Ok(c.data[index + 1])

\* a mutant of out_of_range: a coordinate equal to CHUNK_SIZE passes
out_of_range_gt(x, y, z) == x > CHUNK_SIZE \/ y > CHUNK_SIZE \/ z > CHUNK_SIZE

\* the bounds test of block_at, get_block and set_block
out_of_range(x, y, z) == x >= CHUNK_SIZE \/ y >= CHUNK_SIZE \/ z >= CHUNK_SIZE

block_at(c, x, y, z) ==
    IF out_of_range(x, y, z) THEN Panic
    ELSE block_at_index(c, xyz_to_index(x, y, z))

get_block(c, x, y, z) ==
    IF out_of_range(x, y, z)
    THEN Err(OutOfBounds(x, y, z))
    ELSE LET id == block_at(c, x, y, z)
         IN  IF id.tag = "Panic" THEN Panic
             ELSE IF id.val >= Len(c.palette) THEN Panic
             ELSE Ok(c.palette[id.val + 1].block)

\* the chunk after the call, and whether the call returned (ok) or panicked
set_raw(c, index, block_id) ==
    IF c.is_single THEN [chunk |-> c, ok |-> FALSE]
    ELSE IF c.double_bytes
         THEN LET lsb == block_id % U8_RANGE
                  msb == (block_id \div U8_RANGE) % U8_RANGE
                  scaled_index == index * 2
              IN  IF scaled_index >= Len(c.data) THEN [chunk |-> c, ok |-> FALSE]
                  ELSE IF scaled_index + 1 >= Len(c.data)
                       THEN [chunk |-> [c EXCEPT !.data[scaled_index + 1] = lsb], ok |-> FALSE]
                       ELSE [chunk |-> [c EXCEPT !.data[scaled_index + 1] = lsb,
                                                 !.data[scaled_index + 2] = msb],
                             ok |-> TRUE]
         ELSE IF index >= Len(c.data) THEN [chunk |-> c, ok |-> FALSE]
              ELSE [chunk |-> [c EXCEPT !.data[index + 1] = block_id % U8_RANGE], ok |-> TRUE]

\* a mutant of grow_data: the two bytes of a cell in the other order
grow_data_msb_first(c) ==
    IF c.double_bytes THEN [chunk |-> c, ok |-> FALSE]
    ELSE IF Len(c.data) < BLOCKS_PER_CHUNK THEN [chunk |-> c, ok |-> FALSE]
    ELSE [chunk |-> [c EXCEPT !.data = SubSeq([j \in 1..DOUBLE_BLOCKS_PER_CHUNK |->
                                           IF j % 2 = 0 THEN c.data[j \div 2] ELSE 0],
                                       1, DOUBLE_BLOCKS_PER_CHUNK),
                              !.double_bytes = TRUE],
          ok |-> TRUE]

\* the chunk after the call, and whether the call returned (ok) or panicked:
\* the loop reads data[i] for every i < BLOCKS_PER_CHUNK
grow_data(c) ==
    IF c.double_bytes THEN [chunk |-> c, ok |-> FALSE]
    ELSE IF Len(c.data) < BLOCKS_PER_CHUNK THEN [chunk |-> c, ok |-> FALSE]
    ELSE [chunk |-> [c EXCEPT !.data = SubSeq([j \in 1..DOUBLE_BLOCKS_PER_CHUNK |->
                                           IF j % 2 = 1 THEN c.data[(j + 1) \div 2] ELSE 0],
                                       1, DOUBLE_BLOCKS_PER_CHUNK),
                              !.double_bytes = TRUE],
          ok |-> TRUE]

\* Some(i) is the Rust index i, None is -1
first_free_palette(c) ==
    IF Len(c.palette) = 0 THEN -1
    ELSE LET free == { i \in 1..(Len(c.palette) - 1) : is_free(c.palette[i + 1]) }
         IN  IF free = {} THEN -1
             ELSE CHOOSE i \in free : \A j \in free : i <= j

\* the chunk after the call, the index returned, and whether the call returned
add_palette(c, entry) ==
    LET same == { i \in 0..(Len(c.palette) - 1) : c.palette[i + 1] = entry }
        free == first_free_palette(c)
    IN  IF same # {}
        THEN [chunk |-> c, idx |-> CHOOSE i \in same : \A j \in same : i <= j, ok |-> TRUE]
        ELSE IF free # -1
        THEN [chunk |-> [c EXCEPT !.palette[free + 1] = entry], idx |-> free, ok |-> TRUE]
        ELSE LET g == IF Len(c.palette) = U8_RANGE THEN grow_data(c)
                      ELSE [chunk |-> c, ok |-> TRUE]
             IN  IF ~g.ok THEN [chunk |-> g.chunk, idx |-> -1, ok |-> FALSE]
                 ELSE [chunk |-> [g.chunk EXCEPT !.palette = Append(@, entry)],
                       idx |-> Len(c.palette), ok |-> TRUE]

\* a mutant of same_block: the early return is never taken
same_block_never(c, old_block, block) == FALSE

\* set_block's test "we're setting the block to the same block"
same_block(c, old_block, block) == c.palette[old_block + 1].block = block

\* set_block on a single chunk: the chunk with its data made
make_dense(c) ==
    IF c.is_single
    THEN [c EXCEPT !.is_single = FALSE,
                   !.data = zeros(CHUNK_SIZE),
                   !.palette[1].ref_count = BLOCKS_PER_CHUNK % U16_RANGE]
    ELSE c

\* a mutant of release_old: the old entry keeps its count
release_old_skip(c, old_block) == c

\* set_block's `p.ref_count -= 1` on the entry of the old block
release_old(c, old_block) == [c EXCEPT !.palette[old_block + 1].ref_count = @ - 1]

\* a mutant of palette_search: the block is never found
palette_search_none(c, block) == {}

\* set_block's loop "check the palette to see if this block already is in it
\* (including free ones!)": the Rust indices of the entries that hold the block
palette_search(c, block) == { i \in 0..(Len(c.palette) - 1) : c.palette[i + 1].block = block }

\* the chunk after the call and the call's result
set_block(c, x, y, z, block) ==
    IF out_of_range(x, y, z)
    THEN [chunk |-> c, res |-> Err(OutOfBounds(x, y, z))]
    ELSE
    LET old_block == block_at(c, x, y, z)
        index == xyz_to_index(x, y, z)
    IN  IF old_block.tag = "Panic" THEN [chunk |-> c, res |-> Panic]
        ELSE IF old_block.val >= Len(c.palette) THEN [chunk |-> c, res |-> Panic]
        ELSE IF same_block(c, old_block.val, block) THEN [chunk |-> c, res |-> Ok(block)]
        ELSE
        LET c1 == make_dense(c)
            p == c1.palette[old_block.val + 1]
        IN  IF is_free(p) THEN [chunk |-> c1, res |-> Panic]
            ELSE
            LET c2 == release_old(c1, old_block.val)
                ret == p.block
                found == palette_search(c2, block)
            IN  IF found # {}
                THEN LET palette_idx == CHOOSE i \in found : \A j \in found : i <= j
                         c3 == [c2 EXCEPT !.palette[palette_idx + 1].ref_count = @ + 1]
                         r == set_raw(c3, index, palette_idx)
                     IN  [chunk |-> r.chunk, res |-> IF r.ok THEN Ok(ret) ELSE Panic]
                ELSE LET a == add_palette(c2, PaletteEntry_new(block))
                     IN  IF ~a.ok THEN [chunk |-> a.chunk, res |-> Panic]
                         ELSE LET c3 == [a.chunk EXCEPT !.palette[a.idx + 1].ref_count = @ + 1]
                                  r == set_raw(c3, index, a.idx)
                              IN  [chunk |-> r.chunk, res |-> IF r.ok THEN Ok(ret) ELSE Panic]

\* Chunk::set_block and Chunk::get_block of a chunk that is_initialized:
\* the i32 coordinates of the IVec3 are cast to usize
Chunk_set_block(c, pos, state) ==
    set_block(c, as_usize(pos[1]), as_usize(pos[2]), as_usize(pos[3]), state)

Chunk_get_block(c, pos) ==
    get_block(c, as_usize(pos[1]), as_usize(pos[2]), as_usize(pos[3]))

(***************************************************************************)
(* PackedChunkData.  A u64 of block_data does not fit TLC's integers: the  *)
(* vector of u64 words is represented by the bytes of the words, least     *)
(* significant byte first, eight per word.                                 *)
(***************************************************************************)
\* 2^ceil(log2(log2(n))), at least 1: the bits per id of a palette of n entries
\* (n <= 65536: a palette holds at most one entry per cell and one more)
id_size(n) ==
    IF n <= 2 THEN 1
    ELSE IF n <= 4 THEN 2
    ELSE IF n <= 16 THEN 4
    ELSE IF n <= 256 THEN 8
    ELSE 16

\* the palette filter of the packing: "trim empty palette entries"
is_live(entry) == entry.ref_count # 0

\* the byte that the loop of the packing builds from the cells first_cell, first_cell + 1, ...:
\* `((id & mask) as u64) << bit_pointer`, or-ed
RECURSIVE packed_byte(_, _, _, _)
packed_byte(c, bits, first_cell, k) ==
    IF k * bits >= 8 THEN 0
    ELSE (block_at_index(c, first_cell + k).val % (2 ^ bits)) * (2 ^ (k * bits))
         + packed_byte(c, bits, first_cell, k + 1)

\* impl From<&ChunkData> for PackedChunkData
pack(c) ==
    IF c.is_single
    THEN IF Len(c.palette) # 1 THEN Panic
         ELSE IF c.palette[1].ref_count # BLOCKS_PER_CHUNK THEN Panic
         ELSE Ok([block_data |-> << >>, palette |-> << c.palette[1] >>, is_single |-> TRUE])
    ELSE LET palette == SelectSeq(c.palette, is_live)
             bits == id_size(Len(palette))
             n_bytes == (BLOCKS_PER_CHUNK * bits) \div 8
         IN  IF \E i \in 0..(BLOCKS_PER_CHUNK - 1) : block_at_index(c, i).tag = "Panic"
             THEN Panic
             ELSE Ok([block_data |->
                         SubSeq([j \in 1..n_bytes |->
                                    IF bits = 16
                                    THEN IF j % 2 = 1
                                         THEN block_at_index(c, (j - 1) \div 2).val % U8_RANGE
                                         ELSE (block_at_index(c, (j - 1) \div 2).val \div U8_RANGE) % U8_RANGE
                                    ELSE packed_byte(c, bits, (j - 1) * (8 \div bits), 0)],
                                1, n_bytes),
                      palette |-> palette,
                      is_single |-> FALSE])

\* the id that the loop of the unpacking reads for cell i:
\* `((mask << bit_pointer) & quad_word) >> bit_pointer`
unpacked_id(block_data, bits, i) ==
    IF bits = 16
    THEN block_data[2 * i + 1] + U8_RANGE * block_data[2 * i + 2]
    ELSE (block_data[(i \div (8 \div bits)) + 1] \div (2 ^ ((i % (8 \div bits)) * bits))) % (2 ^ bits)

\* impl Into<ChunkData> for PackedChunkData
unpack(p) ==
    IF p.is_single
    THEN IF Len(p.palette) # 1 THEN Panic
         ELSE IF p.palette[1].ref_count # BLOCKS_PER_CHUNK THEN Panic
         ELSE Ok([palette |-> << p.palette[1] >>, data |-> << >>,
                  is_single |-> TRUE, double_bytes |-> FALSE])
    ELSE LET bits == id_size(Len(p.palette))
             double_bytes == Len(p.palette) > U8_RANGE
             vec_size == IF double_bytes THEN DOUBLE_BLOCKS_PER_CHUNK ELSE BLOCKS_PER_CHUNK
             n_ids == (Len(p.block_data) \div 8) * (64 \div bits)
             n_bytes == IF double_bytes THEN 2 * n_ids ELSE n_ids
             unpacked_data ==
                 SubSeq([j \in 1..n_bytes |->
                            IF double_bytes
                            THEN IF j % 2 = 1
                                 THEN unpacked_id(p.block_data, bits, (j - 1) \div 2) % U8_RANGE
                                 ELSE (unpacked_id(p.block_data, bits, (j - 1) \div 2) \div U8_RANGE)
                                          % U8_RANGE
                            ELSE unpacked_id(p.block_data, bits, j - 1) % U8_RANGE],
                        1, n_bytes)
         IN  IF n_bytes # vec_size THEN Panic
             ELSE Ok([data |-> unpacked_data, palette |-> p.palette,
                      is_single |-> FALSE, double_bytes |-> double_bytes])

\* a ChunkData packed and unpacked again
unpack_pack(c) ==
    LET packed == pack(c)
    IN  IF packed.tag = "Panic" THEN Panic ELSE unpack(packed.val)

(***************************************************************************)
(* Chunks a generation function hands to with_data: the palette and the    *)
(* bytes are built together, each cell counted on its palette entry.       *)
(***************************************************************************)
index_x(i) == (i \div CHUNK_SIZE) % CHUNK_SIZE
index_y(i) == i \div (CHUNK_SIZE * CHUNK_SIZE)
index_z(i) == i % CHUNK_SIZE

\* the palette entries with the ref counts that the cells `ids` give them
counted(blocks, ids) ==
    [k \in 1..Len(blocks) |->
        [ref_count |-> Cardinality({ j \in 1..Len(ids) : ids[j] = k - 1 }),
         block |-> blocks[k]]]

\* a layer of dirt (palette 2) on stone (palette 1); air (palette 0) is unused
make_data ==
    LET ids == SubSeq([j \in 1..BLOCKS_PER_CHUNK |->
                          IF index_y(j - 1) = CHUNK_SIZE - 1 THEN 2 ELSE 1],
                      1, BLOCKS_PER_CHUNK)
    IN  with_data(ids, counted(<< AirState, StoneState, DirtState >>, ids)).val

\* a box of dirt (palette 2) in air (palette 0); stone and planks are unused
make_box ==
    LET ids == SubSeq([j \in 1..BLOCKS_PER_CHUNK |->
                          IF /\ 12 <= index_x(j - 1) /\ index_x(j - 1) <= 19
                             /\ 12 <= index_y(j - 1) /\ index_y(j - 1) <= 19
                             /\ index_z(j - 1) % 2 = 0
                          THEN 2 ELSE 0],
                      1, BLOCKS_PER_CHUNK)
    IN  with_data(ids, counted(<< AirState, StoneState, DirtState, PlanksState >>, ids)).val

\* how many i < n have i % m = r
count_mod(n, m, r) == (n - r + m - 1) \div m

\* a palette of U8_RANGE distinct states, every entry in use: cell i holds i % U8_RANGE
full_palette ==
    LET ids == SubSeq([j \in 1..BLOCKS_PER_CHUNK |-> (j - 1) % U8_RANGE], 1, BLOCKS_PER_CHUNK)
    IN  with_data(ids, [k \in 1..U8_RANGE |->
                           [ref_count |-> count_mod(BLOCKS_PER_CHUNK, U8_RANGE, k - 1),
                            block |-> BlockState("stone", k - 1)]]).val

\* a palette of U8_RANGE distinct states whose entry 0 is free:
\* cell i holds 1 + i % (U8_RANGE - 1)
full_palette_free0 ==
    LET ids == SubSeq([j \in 1..BLOCKS_PER_CHUNK |-> 1 + ((j - 1) % (U8_RANGE - 1))],
                      1, BLOCKS_PER_CHUNK)
    IN  with_data(ids, [k \in 1..U8_RANGE |->
                           [ref_count |-> IF k = 1 THEN 0
                                          ELSE count_mod(BLOCKS_PER_CHUNK, U8_RANGE - 1, k - 2),
                            block |-> BlockState("stone", k - 1)]]).val

(***************************************************************************)
(* The chunk generation pipeline (world/block.rs).  A chunk position is an *)
(* IVec3; a ChunkMap and the map of tasks are functions whose domain is    *)
(* the set of their keys.  The ChunkData a generation task returns is      *)
(* named by the task that made it.  The commands of a system (spawn,       *)
(* despawn, insert) are applied when the system ends.                      *)
(***************************************************************************)
\* Option: None and Some(v)
None == << >>
Some(v) == << v >>

Range(q) == { q[i] : i \in 1..Len(q) }

\* HashMap::insert and HashMap::remove
insert(m, k, v) == [x \in DOMAIN m \cup { k } |-> IF x = k THEN v ELSE m[x]]
remove(m, k) == [x \in DOMAIN m \ { k } |-> m[x]]

\* the value of a loop's next pass f[t], with the loop's state t computed once
then(f) == CHOOSE r \in { f[t] : t \in DOMAIN f } : TRUE

\* the orders in which an iteration may visit the keys S of a HashMap
Orderings(S) == { q \in [1..Cardinality(S) -> S] : Range(q) = S }

Chunk_new(pos, chunk_entity) ==
    [pos |-> pos, data |-> None, chunk_entity |-> chunk_entity,
     generation_status |-> "NotGenerated"]

is_initialized(ch) == ch.data # None /\ ch.generation_status = "Generated"

\* a mutant of init_data: the data is not installed
init_data_dropped(ch, data) == [chunk |-> ch, res |-> Ok("unit")]

\* the Chunk after the call and the call's result
init_data(ch, data) ==
    IF ch.data # None
    THEN [chunk |-> ch, res |-> Err([kind |-> "AlreadyInitialized", pos |-> ch.pos])]
    ELSE [chunk |-> [ch EXCEPT !.data = Some(data), !.generation_status = "Generated"],
          res |-> Ok("unit")]

\* a mutant of add_chunk: the chunk replaces the resident one
add_chunk_overwrite(ch, map) == [map |-> insert(map, ch.pos, ch), res |-> Ok("unit")]

\* the map after the call and the call's result
add_chunk(ch, map) ==
    IF ch.pos \in DOMAIN map
    THEN [map |-> map, res |-> Err([kind |-> "DuplicateChunk", pos |-> ch.pos])]
    ELSE [map |-> insert(map, ch.pos, ch), res |-> Ok("unit")]

remove_chunk(pos, map) ==
    IF pos \notin DOMAIN map
    THEN [map |-> map, res |-> Err([kind |-> "NotFound", pos |-> pos])]
    ELSE [map |-> remove(map, pos), res |-> Ok(map[pos])]

\* BlockWorld::new, and a bevy World that holds no chunk entity
BlockWorld_new ==
    [map |-> << >>, to_generate |-> << >>, to_despawn |-> << >>,
     currently_generating |-> << >>, finished_generating |-> << >>,
     currently_meshing |-> << >>, finished_meshing |-> << >>]

\* crashed: a system has panicked, which ends the app; added: the meshes that
\* the last run of upload_meshes added to Assets<Mesh>, in the order of the
\* calls; errors: what the systems have logged with error!; triggered: the
\* events that commands.trigger has sent, in the order of the calls
no_entities ==
    [entities |-> << >>, next_entity |-> 1, crashed |-> FALSE, added |-> << >>, errors |-> {},
     triggered |-> << >>]

\* error!(..) of the error e, or of a ChunkError of this kind for pos
error(ecs_, e) == [ecs_ EXCEPT !.errors = @ \cup { << e.kind, e.pos >> }]

\* IVec3::as_vec3 on one axis: the i32 v as the nearest f32, a significand of 24
\* bits, ties to the even significand (|v| < 2^30); an f32 that is a whole
\* number is represented by that number.  ulp(a) is the distance of two f32
\* around a
RECURSIVE ulp(_)
ulp(a) == IF a < 2 ^ 24 THEN 1 ELSE 2 * ulp(a \div 2)

as_vec3(v) ==
    LET a == IF v < 0 THEN -v ELSE v
        e == ulp(a)
        q == a \div e
        r == a % e
        m == IF 2 * r > e \/ (2 * r = e /\ q % 2 = 1) THEN (q + 1) * e ELSE q * e
    IN  IF v < 0 THEN -m ELSE m

\* chunk::pos_to_chunk_pos: (vec.x / 32 as f32).floor() as i32 on each axis; the
\* division of an f32 by 32 is exact
pos_to_chunk_pos(pos) ==
    << as_vec3(pos[1]) \div 32, as_vec3(pos[2]) \div 32, as_vec3(pos[3]) \div 32 >>

\* chunk::pos_to_chunk_local: pos - (32 * pos_to_chunk_pos(pos))
pos_to_chunk_local(pos) ==
    LET chunk_pos == pos_to_chunk_pos(pos)
    IN  << pos[1] - 32 * chunk_pos[1], pos[2] - 32 * chunk_pos[2], pos[3] - 32 * chunk_pos[3] >>

UnloadedChunk(pos) == [kind |-> "UnloadedChunk", pos |-> pos]
Uninitialized(pos) == [kind |-> "Uninitialized", pos |-> pos]

SetBlockEvent(pos, old, new) == [pos |-> pos, old |-> old, new |-> new]

\* a mutant of trigger: the event is sent twice
trigger_twice(ecs_, event) == [ecs_ EXCEPT !.triggered = Append(Append(@, event), event)]

\* commands.trigger(event)
trigger(ecs_, event) == [ecs_ EXCEPT !.triggered = Append(@, event)]

\* Chunk::set_block and Chunk::get_block of a Chunk ch of the map, whose data
\* is Some(ChunkData): the Chunk after the call and the call's result
resident_set_block(ch, pos, state) ==
    IF ~is_initialized(ch)
    THEN [chunk |-> ch, res |-> Err(Uninitialized(ch.pos))]
    ELSE LET r == Chunk_set_block(ch.data[1], pos, state)
         IN  [chunk |-> [ch EXCEPT !.data = Some(r.chunk)], res |-> r.res]

resident_get_block(ch, pos) ==
    IF ~is_initialized(ch)
    THEN Err(Uninitialized(ch.pos))
    ELSE Chunk_get_block(ch.data[1], pos)

\* BlockWorld::get_block
BlockWorld_get_block(w, pos) ==
    LET chunk_pos == pos_to_chunk_pos(pos)
        chunk_local == pos_to_chunk_local(pos)
    IN  IF chunk_pos \notin DOMAIN w.map
        THEN Err(UnloadedChunk(chunk_pos))
        ELSE resident_get_block(w.map[chunk_pos], chunk_local)

\* BlockWorld::set_block on s = [world, ecs]: the world and the entities after
\* the call and the call's result; the event is sent after the `?`
BlockWorld_set_block(s, pos, block) ==
    LET chunk_pos == pos_to_chunk_pos(pos)
        chunk_local == pos_to_chunk_local(pos)
    IN  IF chunk_pos \notin DOMAIN s.world.map
        THEN [world |-> s.world, ecs |-> s.ecs, res |-> Err(UnloadedChunk(chunk_pos))]
        ELSE LET r == then([ch \in { s.world.map[chunk_pos] } |->
                              resident_set_block(ch, chunk_local, block)])
                 w == [s.world EXCEPT !.map[chunk_pos] = r.chunk]
             IN  IF r.res.tag = "Ok"
                 THEN [world |-> w,
                       ecs |-> trigger(s.ecs, SetBlockEvent(pos, r.res.val, block)),
                       res |-> r.res]
                 ELSE [world |-> w, ecs |-> s.ecs, res |-> r.res]

\* temp_set_block (the branch of KeyCode::KeyC) on s = [world, ecs] with the
\* camera at the block pos: the block of the camera is set in the chunk of the
\* camera, and on Ok the entity of that chunk gets ChunkNeedsMeshing
temp_set_block(s, pos, block) ==
    LET camera_chunk == pos_to_chunk_pos(pos)
        pos_in_chunk == pos_to_chunk_local(pos)
    IN  IF camera_chunk \notin DOMAIN s.world.map
        THEN [world |-> s.world, ecs |-> s.ecs, res |-> Err(UnloadedChunk(camera_chunk))]
        ELSE LET entity == s.world.map[camera_chunk].chunk_entity
                 r == then([ch \in { s.world.map[camera_chunk] } |->
                              resident_set_block(ch, pos_in_chunk, block)])
             IN  IF r.res.tag = "Ok"
                 THEN [world |-> [s.world EXCEPT !.map[camera_chunk] = r.chunk],
                       ecs |-> [s.ecs EXCEPT !.entities[entity].needs_meshing = TRUE],
                       res |-> r.res]
                 ELSE [world |-> s.world, ecs |-> s.ecs, res |-> r.res]

\* the components of a chunk entity: its ChunkMarker, whether it carries
\* ChunkNeedsMeshing, how many children with a ChunkMeshMarker it has, and how
\* many meshing tasks were spawned for it (counted up to 2)
chunk_entity_new(pos) == [pos |-> pos, needs_meshing |-> FALSE, meshes |-> 0, mesh_tasks |-> 0]

\* BlockWorld::queue_chunk_generation and BlockWorld::queue_chunk_despawn
queue_chunk_generation(w, pos) == [w EXCEPT !.to_generate = Append(@, pos)]
queue_chunk_despawn(w, pos) == [w EXCEPT !.to_despawn = Append(@, pos)]

\* the loop of process_generate_queue on s = [world, ecs]: the entity is spawned
\* before add_chunk is tried, and a DuplicateChunk skips the task alone
RECURSIVE process_generate_queue(_)
\* a mutant of process_generate_queue: after a DuplicateChunk the task is
\* spawned all the same
process_generate_queue_no_skip(s) ==
    IF s.world.to_generate = << >> THEN s
    ELSE LET pos == Head(s.world.to_generate)
             chunk_entity == s.ecs.next_entity
             ecs1 == [s.ecs EXCEPT !.entities = insert(@, chunk_entity, chunk_entity_new(pos)),
                                   !.next_entity = chunk_entity + 1]
             w1 == [s.world EXCEPT !.to_generate = Tail(@)]
             added == add_chunk(Chunk_new(pos, chunk_entity), w1.map)
         IN  then([t \in { [world |-> [w1 EXCEPT !.map = added.map,
                                                  !.currently_generating =
                                                      insert(@, pos, [id |-> chunk_entity,
                                                                      done |-> FALSE])],
                             ecs |-> IF added.res.tag = "Err" THEN error(ecs1, added.res.val)
                                     ELSE ecs1] }
                      |-> process_generate_queue(t)])

\* a mutant of process_generate_queue: a DuplicateChunk ends the loop
process_generate_queue_halting(s) ==
    IF s.world.to_generate = << >> THEN s
    ELSE LET pos == Head(s.world.to_generate)
             chunk_entity == s.ecs.next_entity
             ecs1 == [s.ecs EXCEPT !.entities = insert(@, chunk_entity, chunk_entity_new(pos)),
                                   !.next_entity = chunk_entity + 1]
             w1 == [s.world EXCEPT !.to_generate = Tail(@)]
             added == add_chunk(Chunk_new(pos, chunk_entity), w1.map)
         IN  IF added.res.tag = "Err"
             THEN [world |-> w1, ecs |-> error(ecs1, added.res.val)]
             ELSE then([t \in { [world |-> [w1 EXCEPT !.map = added.map,
                                                       !.currently_generating =
                                                           insert(@, pos, [id |-> chunk_entity,
                                                                           done |-> FALSE])],
                                  ecs |-> ecs1] }
                          |-> process_generate_queue(t)])

process_generate_queue(s) ==
    IF s.world.to_generate = << >> THEN s
    ELSE LET pos == Head(s.world.to_generate)
             chunk_entity == s.ecs.next_entity
             ecs1 == [s.ecs EXCEPT !.entities = insert(@, chunk_entity, chunk_entity_new(pos)),
                                   !.next_entity = chunk_entity + 1]
             w1 == [s.world EXCEPT !.to_generate = Tail(@)]
             added == add_chunk(Chunk_new(pos, chunk_entity), w1.map)
         IN  then([t \in { IF added.res.tag = "Err"
                            THEN [world |-> w1, ecs |-> error(ecs1, added.res.val)]
                            ELSE [world |-> [w1 EXCEPT !.map = added.map,
                                                       !.currently_generating =
                                                           insert(@, pos, [id |-> chunk_entity,
                                                                           done |-> FALSE])],
                                  ecs |-> ecs1] }
                      |-> process_generate_queue(t)])

\* the loop of process_despawn_queue
RECURSIVE process_despawn_queue(_)
process_despawn_queue(s) ==
    IF s.world.to_despawn = << >> THEN s
    ELSE LET pos == Head(s.world.to_despawn)
             w1 == [s.world EXCEPT !.to_despawn = Tail(@)]
             old_chunk == remove_chunk(pos, w1.map)
         IN  then([t \in { IF old_chunk.res.tag = "Err"
                            THEN [world |-> w1, ecs |-> error(s.ecs, old_chunk.res.val)]
                            ELSE [world |-> [w1 EXCEPT !.map = old_chunk.map],
                                  ecs |-> [s.ecs EXCEPT !.entities =
                                              remove(@, old_chunk.res.val.chunk_entity)]] }
                      |-> process_despawn_queue(t)])

\* the second loop of receive_generated_chunks, on the finished tasks in the
\* order the first loop met them
RECURSIVE receive_generated_chunks(_, _)
receive_generated_chunks(w, finished) ==
    IF finished = << >> THEN w
    ELSE LET coord == Head(finished)
             data == [task |-> w.currently_generating[coord].id]
         IN  then([t \in { [w EXCEPT !.currently_generating = remove(@, coord),
                                      !.finished_generating = Append(@, << coord, data >>)] }
                      |-> receive_generated_chunks(t, Tail(finished))])

\* the loop of insert_chunk_data: a result whose chunk is gone is dropped; the
\* entity is marked ChunkNeedsMeshing whatever init_data returns
RECURSIVE insert_chunk_data(_)
\* a mutant of insert_chunk_data: a result whose chunk is gone stays at the
\* head of the queue, for a later run
insert_chunk_data_keeping(s) ==
    IF s.world.finished_generating = << >> THEN s
    ELSE LET pos == Head(s.world.finished_generating)[1]
             data == Head(s.world.finished_generating)[2]
             w1 == [s.world EXCEPT !.finished_generating = Tail(@)]
         IN  IF pos \notin DOMAIN w1.map
             THEN s
             ELSE LET inited == init_data(w1.map[pos], data)
                      entity == inited.chunk.chunk_entity
                      ecs1 == IF inited.res.tag = "Err" THEN error(s.ecs, inited.res.val)
                              ELSE s.ecs
                  IN  then([t \in { [world |-> [w1 EXCEPT !.map[pos] = inited.chunk],
                                     ecs |-> IF entity \in DOMAIN ecs1.entities
                                             THEN [ecs1 EXCEPT
                                                      !.entities[entity].needs_meshing = TRUE]
                                             ELSE ecs1] }
                               |-> insert_chunk_data(t)])

insert_chunk_data(s) ==
    IF s.world.finished_generating = << >> THEN s
    ELSE LET pos == Head(s.world.finished_generating)[1]
             data == Head(s.world.finished_generating)[2]
             w1 == [s.world EXCEPT !.finished_generating = Tail(@)]
         IN  IF pos \notin DOMAIN w1.map
             THEN then([t \in { [world |-> w1,
                                 ecs |-> error(s.ecs, [kind |-> "doesn't exist", pos |-> pos])] }
                          |-> insert_chunk_data(t)])
             ELSE LET inited == init_data(w1.map[pos], data)
                      entity == inited.chunk.chunk_entity
                      ecs1 == IF inited.res.tag = "Err" THEN error(s.ecs, inited.res.val)
                              ELSE s.ecs
                  IN  then([t \in { [world |-> [w1 EXCEPT !.map[pos] = inited.chunk],
                                     ecs |-> IF entity \in DOMAIN ecs1.entities
                                             THEN [ecs1 EXCEPT
                                                      !.entities[entity].needs_meshing = TRUE]
                                             ELSE ecs1] }
                               |-> insert_chunk_data(t)])

\* the six positions that queue_mesh_creation and the meshing task look up:
\* north, south, east, west, up, down
neighbors(pos) ==
    { << pos[1], pos[2], pos[3] + 1 >>, << pos[1], pos[2], pos[3] - 1 >>,
      << pos[1] + 1, pos[2], pos[3] >>, << pos[1] - 1, pos[2], pos[3] >>,
      << pos[1], pos[2] + 1, pos[3] >>, << pos[1], pos[2] - 1, pos[3] >> }

\* a mutant of all_initialized: a chunk that is resident is enough
all_initialized_resident(map, pos) == TRUE

\* queue_mesh_creation's test of the chunk and its six neighbours, all resident
all_initialized(map, pos) == \A q \in { pos } \cup neighbors(pos) : is_initialized(map[q])

\* a mutant of remove_needs_meshing: the mark stays
remove_needs_meshing_kept(entities, entity) == entities

\* commands.entity(entity).remove::<ChunkNeedsMeshing>()
remove_needs_meshing(entities, entity) == [entities EXCEPT ![entity].needs_meshing = FALSE]

\* one more meshing task spawned for the entity, counted up to 2
count_mesh_task(entities, entity) ==
    [entities EXCEPT ![entity].mesh_tasks = IF @ < 2 THEN @ + 1 ELSE @]

\* the loop of queue_mesh_creation over the entities that carry ChunkMarker
\* and ChunkNeedsMeshing, from entity on: the unwrap of the chunk's lookup
\* panics when the position is not in the map
RECURSIVE queue_mesh_creation(_, _)
queue_mesh_creation(s, entity) ==
    IF entity >= s.ecs.next_entity \/ s.ecs.crashed THEN s
    ELSE IF entity \notin DOMAIN s.ecs.entities THEN queue_mesh_creation(s, entity + 1)
    ELSE IF ~s.ecs.entities[entity].needs_meshing THEN queue_mesh_creation(s, entity + 1)
    ELSE LET pos == s.ecs.entities[entity].pos
         IN  IF pos \notin DOMAIN s.world.map
             THEN [s EXCEPT !.ecs.crashed = TRUE]
             ELSE IF ~(neighbors(pos) \subseteq DOMAIN s.world.map)
             THEN queue_mesh_creation(s, entity + 1)
             ELSE IF ~all_initialized(s.world.map, pos)
             THEN queue_mesh_creation(s, entity + 1)
             ELSE then([t \in { [world |-> [s.world EXCEPT !.currently_meshing =
                                             insert(@, pos, [done |-> FALSE,
                                                             panicked |-> FALSE,
                                                             mesh |-> None,
                                                             running |-> FALSE])],
                                   ecs |-> [s.ecs EXCEPT !.entities =
                                               count_mesh_task(remove_needs_meshing(@, entity),
                                                               entity)]] }
                          |-> queue_mesh_creation(t, entity + 1)])

\* what the meshing task of pos returns when it runs on the map as it is then:
\* it looks up the chunk and the six neighbours and unwraps their data
mesh_task_panics(map, pos) ==
    \E q \in { pos } \cup neighbors(pos) : q \notin DOMAIN map \/ map[q].data = None

\* the second loop of receive_generated_meshes, on the finished tasks in the
\* order the first loop met them
RECURSIVE receive_generated_meshes(_, _)
receive_generated_meshes(w, finished) ==
    IF finished = << >> THEN w
    ELSE LET coord == Head(finished)
             mesh == w.currently_meshing[coord].mesh
         IN  then([t \in { [w EXCEPT !.currently_meshing = remove(@, coord),
                                      !.finished_meshing = Append(@, << coord, mesh >>)] }
                      |-> receive_generated_meshes(t, Tail(finished))])

\* how many bytes of vertex buffer one run of upload_meshes may upload
MIB_PER_FRAME == 1024 * 1024 * 1

\* a mutant of get_vertex_buffer_size: every mesh is free
get_vertex_buffer_size_free(mesh) == 0

\* a mutant of get_vertex_buffer_size: half of the bytes are counted
get_vertex_buffer_size_halved(mesh) == mesh \div 2

\* Mesh::get_vertex_buffer_size: a mesh is named by the size of its vertex buffer
get_vertex_buffer_size(mesh) == mesh

\* the loop of upload_meshes on s = [world, ecs, hard_process_limit]; the
\* queries read the children as they were when the system started (ecs0),
\* the commands are applied when it ends
RECURSIVE upload_meshes(_, _)
upload_meshes(s, ecs0) ==
    IF s.world.finished_meshing = << >> \/ ~(s.hard_process_limit > 0) \/ s.ecs.crashed
    THEN s
    ELSE LET coord == Head(s.world.finished_meshing)[1]
             mesh == Head(s.world.finished_meshing)[2]
             w1 == [s.world EXCEPT !.finished_meshing = Tail(@)]
         IN  IF mesh = None
             THEN then([t \in { [s EXCEPT !.world = w1] } |-> upload_meshes(t, ecs0)])
             ELSE IF coord \notin DOMAIN w1.map
             THEN [s EXCEPT !.world = w1, !.ecs.crashed = TRUE]
             ELSE LET to_sub == get_vertex_buffer_size(mesh[1])
                      chunk_entity == w1.map[coord].chunk_entity
                      needs_new_mesh == \/ chunk_entity \notin DOMAIN ecs0.entities
                                        \/ ecs0.entities[chunk_entity].meshes = 0
                      ecs1 == [s.ecs EXCEPT !.added = Append(@, << coord, mesh[1] >>)]
                  IN  then([t \in { [world |-> w1,
                                     ecs |-> IF /\ needs_new_mesh
                                                /\ chunk_entity \in DOMAIN ecs1.entities
                                             THEN [ecs1 EXCEPT
                                                      !.entities[chunk_entity].meshes = @ + 1]
                                             ELSE ecs1,
                                     hard_process_limit |-> s.hard_process_limit - to_sub] }
                               |-> upload_meshes(t, ecs0)])

\* the systems of the chain of add_systems, in its order, and the two systems
\* that add_systems adds without an order
Stages == << "process_generate_queue", "process_despawn_queue",
             "receive_generated_chunks", "insert_chunk_data", "queue_mesh_creation" >>
Unchained == { "receive_generated_meshes", "upload_meshes" }

(***************************************************************************)
(* The mesher (render/chunk.rs) and the block models it reads              *)
(* (render/block.rs).  A mesh is the list of the faces pushed, each with   *)
(* the cell it belongs to.                                                 *)
(***************************************************************************)
\* Direction, in the order of NeighborData and of the bits of culled_sides
Directions == << "North", "South", "East", "West", "Up", "Down" >>

bit(n, k) == (n \div (2 ^ k)) % 2

\* the bit of a side in BlockModelMinimal.full_sides
side_bit(direction) ==
    CASE direction = "Up" -> 0 [] direction = "Down" -> 1 [] direction = "North" -> 2
      [] direction = "South" -> 3 [] direction = "East" -> 4 [] direction = "West" -> 5

\* BlockModelMinimal::from_asset_rec on a model that lists the sides `sides` as full
BlockModelMinimal(faces, sides) ==
    [faces |-> faces,
     full_sides |-> LET b(d) == IF d \in sides THEN 2 ^ side_bit(d) ELSE 0
                    IN  b("Up") + b("Down") + b("North") + b("South") + b("East") + b("West")]

\* a mutant of is_full: no side is full
is_full_never(model, direction) == FALSE

is_full(model, direction) == bit(model.full_sides, side_bit(direction)) # 0

FaceMinimal(normal, cull_mode) == [normal |-> normal, cull_mode |-> cull_mode]

\* a mutant of should_skip: the bits of north and south are read in the other order
should_skip_swapped(dir, cull_info) ==
    CASE dir = "North" -> bit(cull_info, 1) # 0 [] dir = "South" -> bit(cull_info, 0) # 0
      [] dir = "East" -> bit(cull_info, 2) # 0 [] dir = "West" -> bit(cull_info, 3) # 0
      [] dir = "Up" -> bit(cull_info, 4) # 0 [] dir = "Down" -> bit(cull_info, 5) # 0

should_skip(dir, cull_info) ==
    CASE dir = "North" -> bit(cull_info, 0) # 0 [] dir = "South" -> bit(cull_info, 1) # 0
      [] dir = "East" -> bit(cull_info, 2) # 0 [] dir = "West" -> bit(cull_info, 3) # 0
      [] dir = "Up" -> bit(cull_info, 4) # 0 [] dir = "Down" -> bit(cull_info, 5) # 0

\* HashMap::get on the model map
model_get(model_map, state) ==
    IF state \in DOMAIN model_map THEN Some(model_map[state]) ELSE None

setup_model_cache(c, model_map) ==
    [entry \in 1..Len(c.palette) |-> model_get(model_map, c.palette[entry].block)]

\* the bits of the six sides of the cell, or Panic; models[1] is the chunk's
\* list and models[1 + k] the list of the neighbour Directions[k]
culled_sides(c, x, y, z, neighbors_, models) ==
    LET last_cell == CHUNK_SIZE - 1
        looked ==
            << IF z = last_cell THEN << block_at(neighbors_[1], x, y, 0), 1 >>
                                ELSE << block_at(c, x, y, z + 1), 0 >>,
               IF z = 0 THEN << block_at(neighbors_[2], x, y, last_cell), 2 >>
                        ELSE << block_at(c, x, y, z - 1), 0 >>,
               IF x = last_cell THEN << block_at(neighbors_[3], 0, y, z), 3 >>
                                ELSE << block_at(c, x + 1, y, z), 0 >>,
               IF x = 0 THEN << block_at(neighbors_[4], last_cell, y, z), 4 >>
                        ELSE << block_at(c, x - 1, y, z), 0 >>,
               IF y = last_cell THEN << block_at(neighbors_[5], x, 0, z), 5 >>
                                ELSE << block_at(c, x, y + 1, z), 0 >>,
               IF y = 0 THEN << block_at(neighbors_[6], x, last_cell, z), 6 >>
                        ELSE << block_at(c, x, y - 1, z), 0 >> >>
        m(k) == models[looked[k][2] + 1][looked[k][1].val + 1]
        queried(k) == CASE k = 1 -> "South" [] k = 2 -> "North" [] k = 3 -> "West"
                        [] k = 4 -> "East" [] k = 5 -> "Down" [] k = 6 -> "Up"
        cull(k) == IF m(k) # None /\ is_full(m(k)[1], queried(k)) THEN 1 ELSE 0
    IN  IF \E k \in 1..6 : \/ looked[k][1].tag = "Panic"
                           \/ looked[k][1].val >= Len(models[looked[k][2] + 1])
        THEN Panic
        ELSE Ok(cull(1) + 2 * cull(2) + 4 * cull(3) + 8 * cull(4) + 16 * cull(5) + 32 * cull(6))

\* the faces that the second loop of create_chunk_mesh pushes for one cell
RECURSIVE pushed_faces(_, _, _, _)
pushed_faces(pos, faces, k, cull_info) ==
    IF k > Len(faces) THEN << >>
    ELSE IF faces[k].cull_mode # None /\ should_skip(faces[k].cull_mode[1], cull_info)
         THEN pushed_faces(pos, faces, k + 1, cull_info)
         ELSE << << pos, faces[k] >> >> \o pushed_faces(pos, faces, k + 1, cull_info)

\* the cells of S in the order of their indices
in_order(S) ==
    LET of_S(i) == i \in S
    IN  SelectSeq([j \in 1..BLOCKS_PER_CHUNK |-> j - 1], of_S)

\* the first and second loop of create_chunk_mesh on the cells `cells`
RECURSIVE mesh_faces(_, _, _, _, _)
mesh_faces(c, model_map, neighbors_, models, cells) ==
    IF cells = << >> THEN Ok(<< >>)
    ELSE LET i == Head(cells)
             x == index_x(i)
             y == index_y(i)
             z == index_z(i)
             block == c.palette[block_at_index(c, i).val + 1].block
             cull_info == culled_sides(c, x, y, z, neighbors_, models)
             block_model == model_get(model_map, block)
             rest == mesh_faces(c, model_map, neighbors_, models, Tail(cells))
         IN  IF cull_info.tag = "Panic" \/ rest.tag = "Panic" THEN Panic
             ELSE IF block_model = None THEN rest
             ELSE Ok(pushed_faces(<< x, y, z >>, block_model[1].faces, 1, cull_info.val)
                         \o rest.val)

\* create_chunk_mesh: block_at_index panics on the first cell past the data,
\* lookup_palette on an id past the palette
create_chunk_mesh(c, model_map, neighbors_) ==
    LET models == << setup_model_cache(c, model_map) >>
                      \o [k \in 1..6 |-> setup_model_cache(neighbors_[k], model_map)]
        looked == { i \in 0..(BLOCKS_PER_CHUNK - 1) :
                       LET id == block_at_index(c, i)
                       IN  ~(/\ id.tag = "Ok"
                             /\ id.val < Len(c.palette)
                             /\ is_air(c.palette[id.val + 1].block)) }
    IN  IF \E i \in looked : \/ block_at_index(c, i).tag = "Panic"
                             \/ block_at_index(c, i).val >= Len(c.palette)
        THEN Panic
        ELSE mesh_faces(c, model_map, neighbors_, models, in_order(looked))

(***************************************************************************)
(* State: one ChunkData and the calls made on it; one BlockWorld, the      *)
(* chunk entities, the system of the chain that runs next (pc), the        *)
(* unordered systems that ran in this tick (ran) and the requests made;    *)
(* the six neighbours of the ChunkData (around) and the model map of the   *)
(* MeshDataCache (cache).                                                  *)
(***************************************************************************)
VARIABLES chunk, origin, ops, last, world, ecs, pc, ran, requests, around, cache

mesher_vars == << around, cache >>
chunk_vars == << chunk, origin, ops, last, mesher_vars >>
pipeline_vars == << world, ecs, pc, ran, requests >>
vars == << chunk_vars, pipeline_vars >>

\* the pipeline before its first tick
PipelineInit ==
    /\ world = BlockWorld_new
    /\ ecs = no_entities
    /\ pc = 1
    /\ ran = {}
    /\ requests = 0

\* six neighbours of air and an empty model map
MesherInit ==
    /\ around = [k \in 1..6 |-> single(AirState)]
    /\ cache = << >>

panicked == last.res.tag = "Panic"

\* the states written: grass is in no palette of the chunks below
Blocks == { AirState, StoneState, GrassState }
\* the positions called: the last cell of the first row, the first cell of the
\* second row, the last cell of the chunk, and two positions out of the chunk
Coords == { <<0, 0, 31>>, <<1, 0, 0>>, <<31, 31, 31>>, <<32, 0, 0>>, <<0, -1, 32>> }

Init ==
    /\ \/ chunk = single(AirState) /\ origin = "single"
       \/ chunk \in { make_data, make_box } /\ origin = "with_data"
    /\ ops = 0
    /\ last = [op |-> "new", pos |-> <<0, 0, 0>>, block |-> AirState, res |-> Ok(0)]
    /\ MesherInit
    /\ PipelineInit

SetBlock ==
    /\ ~panicked
    /\ ops < MaxOps
    /\ \E pos \in Coords, b \in Blocks :
          \E r \in { Chunk_set_block(chunk, pos, b) } :
              /\ chunk' = r.chunk
              /\ last' = [op |-> "set_block", pos |-> pos, block |-> b, res |-> r.res]
    /\ ops' = ops + 1
    /\ UNCHANGED << origin, mesher_vars, pipeline_vars >>

GetBlock ==
    /\ ~panicked
    /\ ops < MaxOps
    /\ \E pos \in Coords :
          last' = [op |-> "get_block", pos |-> pos, block |-> AirState,
                   res |-> Chunk_get_block(chunk, pos)]
    /\ ops' = ops + 1
    /\ UNCHANGED << chunk, origin, mesher_vars, pipeline_vars >>

BlockAt ==
    /\ ~panicked
    /\ ops < MaxOps
    /\ \E pos \in Coords :
          last' = [op |-> "block_at", pos |-> pos, block |-> AirState,
                   res |-> block_at(chunk, as_usize(pos[1]), as_usize(pos[2]), as_usize(pos[3]))]
    /\ ops' = ops + 1
    /\ UNCHANGED << chunk, origin, mesher_vars, pipeline_vars >>

\* the chunk is packed and the unpacked result takes its place
PackUnpack ==
    /\ ~panicked
    /\ ops < MaxOps
    /\ \E r \in { unpack_pack(chunk) } :
           /\ chunk' = IF r.tag = "Ok" THEN r.val ELSE chunk
           /\ origin' = IF r.tag = "Ok" THEN "unpacked" ELSE origin
           /\ last' = [op |-> "unpack_pack", pos |-> <<0, 0, 0>>, block |-> AirState,
                       res |-> IF r.tag = "Ok" THEN Ok(0) ELSE Panic]
    /\ ops' = ops + 1
    /\ UNCHANGED << mesher_vars, pipeline_vars >>

\* calls on one ChunkData
Next == SetBlock \/ GetBlock \/ BlockAt

Spec == Init /\ [][Next]_vars

\* the same calls, and the chunk saved and loaded
NextPack == Next \/ PackUnpack

SpecPack == Init /\ [][NextPack]_vars

\* set_block calls on a chunk whose palette is full at one byte per cell
InitGrow ==
    /\ chunk \in { full_palette, full_palette_free0 }
    /\ origin = "with_data"
    /\ ops = 0
    /\ last = [op |-> "new", pos |-> <<0, 0, 0>>, block |-> AirState, res |-> Ok(0)]
    /\ MesherInit
    /\ PipelineInit

NextGrow == SetBlock

SpecGrow == InitGrow /\ [][NextGrow]_vars

(***************************************************************************)
(* The pipeline: requests from other systems, the systems of the tick one  *)
(* after the other, and the generation tasks on the worker threads.        *)
(***************************************************************************)
Positions == { <<0, 0, 0>>, <<1, 0, 0>> }

InitPipeline ==
    /\ chunk = single(AirState) /\ origin = "single"
    /\ ops = 0
    /\ last = [op |-> "new", pos |-> <<0, 0, 0>>, block |-> AirState, res |-> Ok(0)]
    /\ MesherInit
    /\ PipelineInit

\* a system that is not of the chain calls the BlockWorld between two systems
QueueChunkGeneration ==
    /\ ~ecs.crashed
    /\ requests < MaxRequests
    /\ \E pos \in Positions : world' = queue_chunk_generation(world, pos)
    /\ requests' = requests + 1
    /\ UNCHANGED << ecs, pc, ran, chunk_vars >>

QueueChunkDespawn ==
    /\ ~ecs.crashed
    /\ requests < MaxRequests
    /\ \E pos \in Positions : world' = queue_chunk_despawn(world, pos)
    /\ requests' = requests + 1
    /\ UNCHANGED << ecs, pc, ran, chunk_vars >>

\* the meshing tasks that hold the read lock of the ChunkMap: a task takes it
\* with chunk_map.read_guard() when a worker starts it and holds it to its end
readers == { pos \in DOMAIN world.currently_meshing : world.currently_meshing[pos].running }

\* map.write_guard() of a system that has found its queue not empty: the call
\* returns when no read lock is held
write_guard(queue) == queue # << >> => readers = {}

\* the tick is over when the chain and the two unordered systems have run
tick_over(p, r) == p = Len(Stages) + 1 /\ r = Unchained

\* the system of the chain that runs next, or none when the chain has run
runs(system) == ~ecs.crashed /\ pc <= Len(Stages) /\ Stages[pc] = system

\* pc and ran after a system of the chain, and after an unordered system
next_stage ==
    /\ pc' = IF tick_over(pc + 1, ran) THEN 1 ELSE pc + 1
    /\ ran' = IF tick_over(pc + 1, ran) THEN {} ELSE ran

next_unchained(system) ==
    /\ pc' = IF tick_over(pc, ran \cup { system }) THEN 1 ELSE pc
    /\ ran' = IF tick_over(pc, ran \cup { system }) THEN {} ELSE ran \cup { system }

ProcessGenerateQueue ==
    /\ runs("process_generate_queue")
    /\ write_guard(world.to_generate)
    /\ \E s \in { process_generate_queue([world |-> world, ecs |-> ecs]) } :
           world' = s.world /\ ecs' = s.ecs
    /\ next_stage
    /\ UNCHANGED << requests, chunk_vars >>

ProcessDespawnQueue ==
    /\ runs("process_despawn_queue")
    /\ write_guard(world.to_despawn)
    /\ \E s \in { process_despawn_queue([world |-> world, ecs |-> ecs]) } :
           world' = s.world /\ ecs' = s.ecs
    /\ next_stage
    /\ UNCHANGED << requests, chunk_vars >>

\* the first loop polls every task of currently_generating, in the order of
\* the HashMap's iteration
ReceiveGeneratedChunks ==
    /\ runs("receive_generated_chunks")
    /\ \E finished \in Orderings({ p \in DOMAIN world.currently_generating :
                                      world.currently_generating[p].done }) :
           world' = receive_generated_chunks(world, finished)
    /\ next_stage
    /\ UNCHANGED << ecs, requests, chunk_vars >>

InsertChunkData ==
    /\ runs("insert_chunk_data")
    /\ write_guard(world.finished_generating)
    /\ \E s \in { insert_chunk_data([world |-> world, ecs |-> ecs]) } :
           world' = s.world /\ ecs' = s.ecs
    /\ next_stage
    /\ UNCHANGED << requests, chunk_vars >>

QueueMeshCreation ==
    /\ runs("queue_mesh_creation")
    /\ \E s \in { queue_mesh_creation([world |-> world, ecs |-> ecs], 1) } :
           world' = s.world /\ ecs' = s.ecs
    /\ next_stage
    /\ UNCHANGED << requests, chunk_vars >>

\* polling a task that has panicked panics
ReceiveGeneratedMeshes ==
    /\ ~ecs.crashed
    /\ "receive_generated_meshes" \notin ran
    /\ LET done == { p \in DOMAIN world.currently_meshing : world.currently_meshing[p].done }
       IN  IF \E p \in done : world.currently_meshing[p].panicked
           THEN world' = world /\ ecs' = [ecs EXCEPT !.crashed = TRUE]
           ELSE /\ \E finished \in Orderings(done) :
                      world' = receive_generated_meshes(world, finished)
                /\ ecs' = ecs
    /\ next_unchained("receive_generated_meshes")
    /\ UNCHANGED << requests, chunk_vars >>

UploadMeshes ==
    /\ ~ecs.crashed
    /\ "upload_meshes" \notin ran
    /\ \E s \in { upload_meshes([world |-> world, ecs |-> [ecs EXCEPT !.added = << >>],
                                  hard_process_limit |-> MIB_PER_FRAME], ecs) } :
           world' = s.world /\ ecs' = s.ecs
    /\ next_unchained("upload_meshes")
    /\ UNCHANGED << requests, chunk_vars >>

\* the task of pos, on a thread of the AsyncComputeTaskPool, returns its ChunkData
TaskCompletes(pos) ==
    /\ ~ecs.crashed
    /\ pos \in DOMAIN world.currently_generating
    /\ ~world.currently_generating[pos].done
    /\ world' = [world EXCEPT !.currently_generating[pos].done = TRUE]
    /\ UNCHANGED << ecs, pc, ran, requests, chunk_vars >>

\* the sizes of the vertex buffers of the meshes: a quarter of the budget of
\* a tick, three fifths of it, twice the budget
MeshSizes == { MIB_PER_FRAME \div 4, 3 * (MIB_PER_FRAME \div 5), 2 * MIB_PER_FRAME }

\* the meshing task of pos, on a thread of the AsyncComputeTaskPool, takes the
\* read lock of the map and returns None (an empty chunk) or a mesh, or panics
MeshTaskCompletes(pos) ==
    /\ ~ecs.crashed
    /\ pos \in DOMAIN world.currently_meshing
    /\ ~world.currently_meshing[pos].done
    /\ IF mesh_task_panics(world.map, pos)
       THEN world' = [world EXCEPT !.currently_meshing[pos] =
                                       [done |-> TRUE, panicked |-> TRUE, mesh |-> None,
                                        running |-> FALSE]]
       ELSE \E mesh \in { None } \cup { Some(size) : size \in MeshSizes } :
               world' = [world EXCEPT !.currently_meshing[pos] =
                                          [done |-> TRUE, panicked |-> FALSE, mesh |-> mesh,
                                           running |-> FALSE]]
    /\ UNCHANGED << ecs, pc, ran, requests, chunk_vars >>

GenerationTask == \E pos \in Positions : TaskCompletes(pos)

NextPipeline ==
    \/ QueueChunkGeneration
    \/ QueueChunkDespawn
    \/ ProcessGenerateQueue
    \/ ProcessDespawnQueue
    \/ ReceiveGeneratedChunks
    \/ InsertChunkData
    \/ QueueMeshCreation
    \/ ReceiveGeneratedMeshes
    \/ UploadMeshes
    \/ GenerationTask

\* the systems of the tick
Tick ==
    \/ ProcessGenerateQueue \/ ProcessDespawnQueue \/ ReceiveGeneratedChunks
    \/ InsertChunkData \/ QueueMeshCreation \/ ReceiveGeneratedMeshes \/ UploadMeshes

\* ticks keep running, and a generation task that runs returns
SpecPipeline ==
    /\ InitPipeline
    /\ [][NextPipeline]_vars
    /\ WF_vars(Tick)
    /\ \A pos \in Positions : WF_vars(TaskCompletes(pos))

(***************************************************************************)
(* The pipeline around one chunk: the position <<0, 0, 0>> and its         *)
(* neighbour to the east are requested (they are the Positions); the five  *)
(* other neighbours were generated in earlier ticks, and each waits with   *)
(* its ChunkNeedsMeshing for neighbours of its own.  No chunk is           *)
(* despawned.                                                              *)
(***************************************************************************)
Center == <<0, 0, 0>>

\* the neighbours of Center that are resident from the start, in the order of
\* their entities
Settled == << <<0, 0, 1>>, <<0, 0, -1>>, <<-1, 0, 0>>, <<0, 1, 0>>, <<0, -1, 0>> >>

InitMesh ==
    /\ chunk = single(AirState) /\ origin = "single"
    /\ ops = 0
    /\ last = [op |-> "new", pos |-> <<0, 0, 0>>, block |-> AirState, res |-> Ok(0)]
    /\ MesherInit
    /\ world = [BlockWorld_new EXCEPT
                    !.map = [p \in Range(Settled) |->
                                LET e == CHOOSE i \in 1..Len(Settled) : Settled[i] = p
                                IN  init_data(Chunk_new(p, e), [task |-> e]).chunk]]
    /\ ecs = [entities |-> [e \in 1..Len(Settled) |->
                                [chunk_entity_new(Settled[e]) EXCEPT !.needs_meshing = TRUE]],
              next_entity |-> Len(Settled) + 1,
              crashed |-> FALSE,
              added |-> << >>,
              errors |-> {},
              triggered |-> << >>]
    /\ pc = 1
    /\ ran = {}
    /\ requests = 0

MeshingTask == \E pos \in Positions : MeshTaskCompletes(pos)

NextMesh ==
    \/ QueueChunkGeneration
    \/ ProcessGenerateQueue
    \/ ProcessDespawnQueue
    \/ ReceiveGeneratedChunks
    \/ InsertChunkData
    \/ QueueMeshCreation
    \/ ReceiveGeneratedMeshes
    \/ UploadMeshes
    \/ GenerationTask
    \/ MeshingTask

\* ticks keep running, and a task that runs returns
SpecMesh ==
    /\ InitMesh
    /\ [][NextMesh]_vars
    /\ WF_vars(Tick)
    /\ \A pos \in Positions : WF_vars(TaskCompletes(pos)) /\ WF_vars(MeshTaskCompletes(pos))

(***************************************************************************)
(* The same with the two steps of a meshing task apart: a worker starts    *)
(* the task, which takes the read lock of the ChunkMap and looks up the    *)
(* chunk and its neighbours, and later the task returns and the lock is    *)
(* released.                                                               *)
(***************************************************************************)
MeshTaskStarts(pos) ==
    /\ ~ecs.crashed
    /\ pos \in DOMAIN world.currently_meshing
    /\ ~world.currently_meshing[pos].done
    /\ ~world.currently_meshing[pos].running
    /\ world' = [world EXCEPT !.currently_meshing[pos].running = TRUE]
    /\ UNCHANGED << ecs, pc, ran, requests, chunk_vars >>

MeshTaskEnds(pos) ==
    /\ pos \in DOMAIN world.currently_meshing
    /\ world.currently_meshing[pos].running
    /\ MeshTaskCompletes(pos)

WorkerStarts == \E pos \in Positions : MeshTaskStarts(pos)
WorkerEnds == \E pos \in Positions : MeshTaskEnds(pos)

NextLock ==
    \/ QueueChunkGeneration
    \/ ProcessGenerateQueue
    \/ ProcessDespawnQueue
    \/ ReceiveGeneratedChunks
    \/ InsertChunkData
    \/ QueueMeshCreation
    \/ ReceiveGeneratedMeshes
    \/ UploadMeshes
    \/ GenerationTask
    \/ WorkerStarts
    \/ WorkerEnds

SpecLock ==
    /\ InitMesh
    /\ [][NextLock]_vars
    /\ WF_vars(Tick)
    /\ \A pos \in Positions :
           WF_vars(TaskCompletes(pos)) /\ WF_vars(MeshTaskStarts(pos)) /\ WF_vars(MeshTaskEnds(pos))

(***************************************************************************)
(* The pipeline around one chunk that is ready for meshing: Center and its *)
(* six neighbours were generated in earlier ticks and carry their          *)
(* ChunkNeedsMeshing.  Center and its neighbour to the east (the           *)
(* Positions) are despawned and requested again.                           *)
(***************************************************************************)
Generated == << Center, <<1, 0, 0>> >> \o Settled

InitChurn ==
    /\ chunk = single(AirState) /\ origin = "single"
    /\ ops = 0
    /\ last = [op |-> "new", pos |-> <<0, 0, 0>>, block |-> AirState, res |-> Ok(0)]
    /\ MesherInit
    /\ world = [BlockWorld_new EXCEPT
                    !.map = [p \in Range(Generated) |->
                                LET e == CHOOSE i \in 1..Len(Generated) : Generated[i] = p
                                IN  init_data(Chunk_new(p, e), [task |-> e]).chunk]]
    /\ ecs = [no_entities EXCEPT
                  !.entities = [e \in 1..Len(Generated) |->
                                   [chunk_entity_new(Generated[e]) EXCEPT !.needs_meshing = TRUE]],
                  !.next_entity = Len(Generated) + 1]
    /\ pc = 1
    /\ ran = {}
    /\ requests = 0

NextChurn == NextPipeline \/ MeshingTask

\* ticks keep running, and a task that runs returns
SpecChurn ==
    /\ InitChurn
    /\ [][NextChurn]_vars
    /\ WF_vars(Tick)
    /\ \A pos \in Positions : WF_vars(TaskCompletes(pos)) /\ WF_vars(MeshTaskCompletes(pos))

(***************************************************************************)
(* Helpers of the properties.                                              *)
(***************************************************************************)
RECURSIVE sum_ref_count(_, _)
sum_ref_count(palette, n) ==
    IF n = 0 THEN 0 ELSE palette[n].ref_count + sum_ref_count(palette, n - 1)

\* the state that the cell of index i decodes to, as get_block reads it
cell_state(c, i) ==
    LET id == block_at_index(c, i)
    IN  IF id.tag = "Panic" THEN Panic
        ELSE IF id.val >= Len(c.palette) THEN Panic
        ELSE Ok(c.palette[id.val + 1].block)

in_range(pos) == \A a \in 1..3 : 0 <= pos[a] /\ pos[a] < CHUNK_SIZE
pos_index(pos) == xyz_to_index(pos[1], pos[2], pos[3])
Cells == 0..(BLOCKS_PER_CHUNK - 1)

\* two results are the same result
same_result(r1, r2) == r1.tag = r2.tag /\ r1.val = r2.val

(***************************************************************************)
(* The mesher on a chunk that holds one block, with a second block (or     *)
(* air) in the cell next to it on one side, which lies in the chunk or,    *)
(* across a face of the chunk, in the neighbour on that side.  The other   *)
(* neighbours are air.  The meshing task meshes every chunk that is not    *)
(* empty with its six neighbours.                                          *)
(***************************************************************************)
\* ChunkData::is_empty
is_empty(c) == c.is_single /\ is_air(c.palette[1].block)

\* the step from a cell to the next cell on the side dir (Facing)
delta(dir) ==
    CASE dir = "North" -> <<0, 0, 1>> [] dir = "South" -> <<0, 0, -1>>
      [] dir = "East" -> <<1, 0, 0>> [] dir = "West" -> <<-1, 0, 0>>
      [] dir = "Up" -> <<0, 1, 0>> [] dir = "Down" -> <<0, -1, 0>>

opposite(k) == CASE k = 1 -> 2 [] k = 2 -> 1 [] k = 3 -> 4 [] k = 4 -> 3 [] k = 5 -> 6 [] k = 6 -> 5

\* the cells that hold the first block: two corners of the chunk
CullCells == { <<0, 0, 0>>, <<31, 31, 31>> }

CullPalette == << AirState, StoneState, DirtState >>

\* a cube that is full on every side; the same cube with no full side (leaves);
\* a slab: full below, and its top face, inside the cell, has no cull_mode
Cube == BlockModelMinimal([k \in 1..6 |-> FaceMinimal(Directions[k], Some(Directions[k]))],
                          { "North", "South", "East", "West", "Up", "Down" })
Leaves == BlockModelMinimal([k \in 1..6 |-> FaceMinimal(Directions[k], Some(Directions[k]))], {})
Slab == BlockModelMinimal([k \in 1..6 |-> FaceMinimal(Directions[k],
                                                      IF Directions[k] = "Up" THEN None
                                                      ELSE Some(Directions[k]))],
                          { "Down" })

\* the model maps: air has no model, and dirt has none in the third
Caches == { (StoneState :> Cube) @@ (DirtState :> Cube),
            (StoneState :> Cube) @@ (DirtState :> Leaves),
            (StoneState :> Cube),
            (StoneState :> Slab) @@ (DirtState :> Cube) }

\* a dense chunk of air with the palette ids a and b in the cells given (b in
\* no cell when its cell is not of this chunk)
two_blocks(cell_a, a, cell_b, b) ==
    LET ids == SubSeq([j \in 1..BLOCKS_PER_CHUNK |->
                          IF cell_a # << >> /\ j - 1 = pos_index(cell_a) THEN a
                          ELSE IF cell_b # << >> /\ j - 1 = pos_index(cell_b) THEN b
                          ELSE 0],
                      1, BLOCKS_PER_CHUNK)
    IN  with_data(ids, counted(CullPalette, ids)).val

wrapped(pos) == << pos[1] % CHUNK_SIZE, pos[2] % CHUNK_SIZE, pos[3] % CHUNK_SIZE >>

InitCull ==
    /\ \E cell \in CullCells, k \in 1..6, a \in 1..2, b \in 0..2 :
          LET next == << cell[1] + delta(Directions[k])[1], cell[2] + delta(Directions[k])[2],
                         cell[3] + delta(Directions[k])[3] >>
          IN  IF in_range(next)
              THEN /\ chunk = two_blocks(cell, a, next, b)
                   /\ around = [j \in 1..6 |-> single(AirState)]
              ELSE /\ chunk = two_blocks(cell, a, << >>, 0)
                   /\ around = [j \in 1..6 |->
                                   IF j = k /\ b # 0 THEN two_blocks(wrapped(next), b, << >>, 0)
                                   ELSE single(AirState)]
    /\ cache \in Caches
    /\ origin = "with_data"
    /\ ops = 0
    /\ last = [op |-> "new", pos |-> <<0, 0, 0>>, block |-> AirState, res |-> Ok(0)]
    /\ PipelineInit

\* the meshing task of the chunk
CreateChunkMesh ==
    /\ ~is_empty(chunk)
    /\ last' = [op |-> "create_chunk_mesh", pos |-> <<0, 0, 0>>, block |-> AirState,
                res |-> create_chunk_mesh(chunk, cache, around)]
    /\ UNCHANGED << chunk, origin, ops, mesher_vars, pipeline_vars >>

\* the neighbours of the neighbour k of the chunk: the chunk, and air
around_neighbor(k) == [j \in 1..6 |-> IF j = opposite(k) THEN chunk ELSE single(AirState)]

\* the meshing task of the neighbour k of the chunk
CreateNeighborMesh ==
    \E k \in 1..6 :
        /\ ~is_empty(around[k])
        /\ last' = [op |-> "create_chunk_mesh", pos |-> delta(Directions[k]), block |-> AirState,
                    res |-> create_chunk_mesh(around[k], cache, around_neighbor(k))]
        /\ UNCHANGED << chunk, origin, ops, mesher_vars, pipeline_vars >>

NextCull == CreateChunkMesh \/ CreateNeighborMesh

SpecCull == InitCull /\ [][NextCull]_vars

(***************************************************************************)
(* The meshing task, from the test of is_empty on: None for a chunk that   *)
(* is_empty, the mesh of create_chunk_mesh for any other.  The chunks      *)
(* meshed are dense with no block, or with one block in a corner (next to  *)
(* which the neighbour may hold a block), and the single chunk of air.     *)
(***************************************************************************)
meshing_task(c, model_map, neighbors_) ==
    IF is_empty(c) THEN Ok(None)
    ELSE LET mesh == create_chunk_mesh(c, model_map, neighbors_)
         IN  IF mesh.tag = "Panic" THEN Panic ELSE Ok(Some(mesh.val))

InitTask ==
    /\ \/ /\ \E cell \in CullCells, a \in 0..2 : chunk = two_blocks(cell, a, << >>, 0)
          /\ \E k \in 1..6, b \in 0..2 :
                around = [j \in 1..6 |->
                             IF j = k /\ b # 0
                             THEN two_blocks(<<0, 0, 0>>, b, << >>, 0)
                             ELSE single(AirState)]
          /\ origin = "with_data"
       \/ /\ chunk = single(AirState)
          /\ around = [j \in 1..6 |-> single(AirState)]
          /\ origin = "single"
    /\ cache \in Caches
    /\ ops = 0
    /\ last = [op |-> "new", pos |-> <<0, 0, 0>>, block |-> AirState, res |-> Ok(0)]
    /\ PipelineInit

\* the meshing task of the chunk runs
RunMeshingTask ==
    /\ ops = 0
    /\ last' = [op |-> "meshing task", pos |-> <<0, 0, 0>>, block |-> AirState,
                res |-> meshing_task(chunk, cache, around)]
    /\ ops' = 1
    /\ UNCHANGED << chunk, origin, mesher_vars, pipeline_vars >>

SpecTask == InitTask /\ [][RunMeshingTask]_vars

(***************************************************************************)
(* The block API of the BlockWorld.  Three chunks are resident: the chunk  *)
(* of the origin with its data, the chunk to its west, whose generation    *)
(* has not finished, and the chunk 524289 to the east, a single chunk of   *)
(* stone.  `last` holds the last call and its result.                      *)
(***************************************************************************)
Origin == <<0, 0, 0>>
West == <<-1, 0, 0>>
FarEast == <<524289, 0, 0>>

\* the world positions called: two in the chunk of the origin; one in the chunk
\* to the west; two in chunks that are not resident, one of them below the
\* origin; and 2^24 + 31, the last block of the chunk 524288, which is not
\* resident
WorldCoords == { <<0, 0, 31>>, <<5, 31, 0>>, <<-1, 5, 0>>, <<32, 0, 0>>, <<0, -33, 5>>,
                 <<2 ^ 24 + 31, 0, 0>> }
\* the positions converted: those, and three more beyond 2^24
ConvertedCoords == WorldCoords \cup { <<-(2 ^ 24) - 33, 0, 0>>, <<2 ^ 24 + 32, -1, 31>>,
                                      <<0, 0, 2 ^ 25 + 62>> }
\* the states written
WorldBlocks == { StoneState, GrassState }

InitWorld ==
    /\ chunk = single(AirState) /\ origin = "single"
    /\ ops = 0
    /\ last = [op |-> "new", pos |-> <<0, 0, 0>>, block |-> AirState, res |-> Ok(0)]
    /\ MesherInit
    /\ world = [BlockWorld_new EXCEPT
                    !.map = (Origin :> init_data(Chunk_new(Origin, 1), make_data).chunk)
                            @@ (West :> Chunk_new(West, 2))
                            @@ (FarEast :> init_data(Chunk_new(FarEast, 3),
                                                     single(StoneState)).chunk),
                    !.currently_generating = (West :> [id |-> 2, done |-> FALSE])]
    /\ ecs = [no_entities EXCEPT
                  !.entities = [e \in 1..3 |-> chunk_entity_new(<< Origin, West, FarEast >>[e])],
                  !.next_entity = 4]
    /\ pc = 1
    /\ ran = {}
    /\ requests = 0

\* a system calls BlockWorld::set_block
WorldSetBlock ==
    /\ ~ecs.crashed
    /\ ops < MaxOps
    /\ \E pos \in WorldCoords, b \in WorldBlocks :
          \E r \in { BlockWorld_set_block([world |-> world, ecs |-> ecs], pos, b) } :
              /\ world' = r.world
              /\ ecs' = [r.ecs EXCEPT !.crashed = r.res.tag = "Panic"]
              /\ last' = [op |-> "BlockWorld::set_block", pos |-> pos, block |-> b,
                          res |-> r.res]
    /\ ops' = ops + 1
    /\ UNCHANGED << chunk, origin, mesher_vars, pc, ran, requests >>

\* KeyCode::KeyC is pressed and temp_set_block runs
TempSetBlock ==
    /\ ~ecs.crashed
    /\ ops < MaxOps
    /\ \E pos \in WorldCoords, b \in WorldBlocks :
          \E r \in { temp_set_block([world |-> world, ecs |-> ecs], pos, b) } :
              /\ world' = r.world
              /\ ecs' = [r.ecs EXCEPT !.crashed = r.res.tag = "Panic"]
              /\ last' = [op |-> "temp_set_block", pos |-> pos, block |-> b, res |-> r.res]
    /\ ops' = ops + 1
    /\ UNCHANGED << chunk, origin, mesher_vars, pc, ran, requests >>

\* a system calls BlockWorld::get_block
WorldGetBlock ==
    /\ ~ecs.crashed
    /\ ops < MaxOps
    /\ \E pos \in WorldCoords :
          \E r \in { BlockWorld_get_block(world, pos) } :
              /\ ecs' = [ecs EXCEPT !.crashed = r.tag = "Panic"]
              /\ last' = [op |-> "BlockWorld::get_block", pos |-> pos, block |-> AirState,
                          res |-> r]
    /\ ops' = ops + 1
    /\ UNCHANGED << chunk, origin, mesher_vars, world, pc, ran, requests >>

\* a system converts a world position
PosToChunk ==
    /\ ~ecs.crashed
    /\ ops < MaxOps
    /\ \E pos \in ConvertedCoords :
          last' = [op |-> "pos_to_chunk_pos", pos |-> pos, block |-> AirState,
                   res |-> Ok(<< pos_to_chunk_pos(pos), pos_to_chunk_local(pos) >>)]
    /\ ops' = ops + 1
    /\ UNCHANGED << chunk, origin, mesher_vars, pipeline_vars >>

NextWorld == WorldSetBlock \/ TempSetBlock \/ WorldGetBlock \/ PosToChunk

SpecWorld == InitWorld /\ [][NextWorld]_vars

(***************************************************************************)
(* The ChunkMap alone.  Any set of the positions below is resident, each   *)
(* chunk with its data; callers add a new Chunk, without data, and remove  *)
(* chunks.                                                                 *)
(***************************************************************************)
MapPositions == << <<0, 0, 0>>, <<1, 0, 0>>, <<0, -1, 0>> >>

InitMap ==
    /\ chunk = single(AirState) /\ origin = "single"
    /\ ops = 0
    /\ last = [op |-> "new", pos |-> <<0, 0, 0>>, block |-> AirState, res |-> Ok(0)]
    /\ MesherInit
    /\ \E resident \in SUBSET (1..Len(MapPositions)) :
          /\ world = [BlockWorld_new EXCEPT
                          !.map = [pos \in { MapPositions[e] : e \in resident } |->
                                      LET e == CHOOSE i \in resident : MapPositions[i] = pos
                                      IN  init_data(Chunk_new(pos, e), [task |-> e]).chunk]]
          /\ ecs = [no_entities EXCEPT
                        !.entities = [e \in resident |-> chunk_entity_new(MapPositions[e])],
                        !.next_entity = Len(MapPositions) + 1]
    /\ pc = 1
    /\ ran = {}
    /\ requests = 0

\* ChunkMap::add_chunk(Chunk::new(pos, entity), guard)
AddChunk ==
    /\ ops < MaxOps
    /\ \E pos \in Range(MapPositions) :
          \E r \in { add_chunk(Chunk_new(pos, ecs.next_entity), world.map) } :
              /\ world' = [world EXCEPT !.map = r.map]
              /\ last' = [op |-> "add_chunk", pos |-> pos, block |-> AirState, res |-> r.res]
    /\ ops' = ops + 1
    /\ UNCHANGED << chunk, origin, mesher_vars, ecs, pc, ran, requests >>

\* ChunkMap::remove_chunk(pos, guard)
RemoveChunk ==
    /\ ops < MaxOps
    /\ \E pos \in Range(MapPositions) :
          \E r \in { remove_chunk(pos, world.map) } :
              /\ world' = [world EXCEPT !.map = r.map]
              /\ last' = [op |-> "remove_chunk", pos |-> pos, block |-> AirState, res |-> r.res]
    /\ ops' = ops + 1
    /\ UNCHANGED << chunk, origin, mesher_vars, ecs, pc, ran, requests >>

NextMap == AddChunk \/ RemoveChunk

SpecMap == InitMap /\ [][NextMap]_vars

(***************************************************************************)
(* C1: in a dense chunk built by with_data from a consistent pair, after   *)
(* any sequence of successful set_block calls every palette entry's        *)
(* ref_count is the number of cells whose stored index is that entry, and  *)
(* the ref_counts sum to BLOCKS_PER_CHUNK.                                 *)
(***************************************************************************)
C1_RefCounts ==
    (origin = "with_data" /\ ~panicked /\ last.op \in { "new", "set_block" }) =>
        /\ \A k \in 1..Len(chunk.palette) :
              chunk.palette[k].ref_count =
                  Cardinality({ i \in Cells : block_at_index(chunk, i).val = k - 1 })
        /\ sum_ref_count(chunk.palette, Len(chunk.palette)) = BLOCKS_PER_CHUNK

\* two set_block calls that each changed a cell of a with_data chunk
C1_Witness ==
    /\ origin = "with_data" /\ ops = 2
    /\ last.op = "set_block" /\ last.res.tag = "Ok" /\ last.res.val # last.block
    /\ Len(chunk.palette) = 4 /\ \A k \in 1..4 : chunk.palette[k].ref_count > 0

(***************************************************************************)
(* C2: on any reachable ChunkData, set_block at a coordinate below 32 on   *)
(* every axis succeeds and a following get_block there returns the state   *)
(* that was set.                                                           *)
(***************************************************************************)
C2_SetThenGet ==
    (last.op = "set_block" /\ in_range(last.pos)) =>
        /\ last.res.tag = "Ok"
        /\ same_result(Chunk_get_block(chunk, last.pos), Ok(last.block))

(***************************************************************************)
(* C3: single(air) after one set_block to another state is dense, reports  *)
(* the new state at the written coordinate and air at every other one.     *)
(***************************************************************************)
C3_SingleToDense ==
    (origin = "single" /\ ops = 1 /\ last.op = "set_block" /\ in_range(last.pos)
        /\ last.block # AirState) =>
        /\ last.res.tag = "Ok"
        /\ ~chunk.is_single
        /\ \A i \in Cells :
              same_result(cell_state(chunk, i),
                          IF i = pos_index(last.pos) THEN Ok(last.block) ELSE Ok(AirState))

(***************************************************************************)
(* C4: the raw array of a dense chunk is BLOCKS_PER_CHUNK bytes long when  *)
(* single-byte and twice that when double-byte.                            *)
(***************************************************************************)
C4_DenseLength ==
    (~panicked /\ ~chunk.is_single) =>
        Len(chunk.data) = IF chunk.double_bytes THEN DOUBLE_BLOCKS_PER_CHUNK
                          ELSE BLOCKS_PER_CHUNK

(***************************************************************************)
(* C5: a chunk in single mode has exactly one palette entry, whose         *)
(* ref_count is BLOCKS_PER_CHUNK.                                          *)
(***************************************************************************)
C5_SingleRefCount ==
    chunk.is_single =>
        /\ Len(chunk.palette) = 1
        /\ chunk.palette[1].ref_count = BLOCKS_PER_CHUNK

(***************************************************************************)
(* C6: set_block of a cell to the state it holds (the state get_block      *)
(* reports for it) returns that state and leaves the ChunkData unchanged:  *)
(* palette, ref_counts, bytes and storage mode.                            *)
(***************************************************************************)
C6_SameWriteNoOp ==
    [][ (last'.op = "set_block"
            /\ same_result(Chunk_get_block(chunk, last'.pos), Ok(last'.block)))
        => (same_result(last'.res, Ok(last'.block)) /\ chunk' = chunk) ]_vars

\* a single chunk written with the state it holds
C6_Witness ==
    /\ last.op = "set_block" /\ last.res.tag = "Ok" /\ last.res.val = last.block
    /\ chunk.is_single

(***************************************************************************)
(* C7: when a set_block appends the 257th palette entry to a single-byte   *)
(* dense chunk, the chunk becomes double-width, two little-endian bytes    *)
(* per cell, and every cell other than the written one decodes to the      *)
(* state it had.                                                           *)
(***************************************************************************)
C7_GrowKeepsCells ==
    [][ (last'.op = "set_block" /\ ~chunk.is_single /\ ~chunk.double_bytes
            /\ Len(chunk.palette) = U8_RANGE /\ Len(chunk'.palette) = U8_RANGE + 1)
        => /\ chunk'.double_bytes
           /\ Len(chunk'.data) = DOUBLE_BLOCKS_PER_CHUNK
           /\ \A i \in Cells :
                 IF i = pos_index(last'.pos)
                 THEN chunk'.data[2 * i + 1] = 0 /\ chunk'.data[2 * i + 2] = 1
                 ELSE \A s \in { cell_state(chunk, i) } :
                         s.tag = "Ok" /\ same_result(cell_state(chunk', i), s) ]_vars

\* the palette has grown to 257 entries and the chunk is double-width
C7_Witness ==
    /\ last.op = "set_block" /\ last.res.tag = "Ok"
    /\ Len(chunk.palette) = U8_RANGE + 1 /\ chunk.double_bytes

C9_RoundTrip ==
    [][ last'.op = "unpack_pack"
        => /\ last'.res.tag = "Ok"
           /\ chunk'.is_single = chunk.is_single
           /\ chunk'.double_bytes = chunk.double_bytes
           /\ chunk'.palette = chunk.palette
           /\ \A i \in Cells : same_result(cell_state(chunk', i), cell_state(chunk, i)) ]_vars

(***************************************************************************)
(* C10: a position passed to queue_chunk_generation and never despawned is *)
(* eventually resident in the ChunkMap with its data installed and the     *)
(* status Generated, when ticks keep running and its task completes:       *)
(* from a state where the position waits in to_generate, either a despawn  *)
(* of the position is requested or the chunk becomes resident and          *)
(* Generated.                                                              *)
(***************************************************************************)
Resident(pos) == pos \in DOMAIN world.map /\ is_initialized(world.map[pos])

C10_EventuallyGenerated ==
    \A pos \in Positions :
        (pos \in Range(world.to_generate))
            ~> (Resident(pos) \/ pos \in Range(world.to_despawn))

\* a position is resident and Generated, and every request made so far was a
\* generation request (each one has spawned its entity): none was a despawn
C10_Witness ==
    /\ \E pos \in Positions : Resident(pos)
    /\ requests > 0
    /\ ecs.next_entity = requests + 1

(***************************************************************************)
(* The upload stage on a queue of finished meshes: the chunks of the       *)
(* Positions are resident with their data (their neighbours were despawned *)
(* after the meshes were made), and up to MaxQueue results wait in         *)
(* finished_meshing, of any chunk, None or a mesh of one of the MeshSizes. *)
(***************************************************************************)
Results == { << pos, mesh >> : pos \in Positions,
                               mesh \in { None } \cup { Some(size) : size \in MeshSizes } }

Queues == UNION { [1..n -> Results] : n \in 0..MaxQueue }

\* the entities of the two chunks, in the order they were spawned
Uploaded == << <<0, 0, 0>>, <<1, 0, 0>> >>

InitUpload ==
    /\ chunk = single(AirState) /\ origin = "single"
    /\ ops = 0
    /\ last = [op |-> "new", pos |-> <<0, 0, 0>>, block |-> AirState, res |-> Ok(0)]
    /\ MesherInit
    /\ \E queue \in Queues :
           world = [BlockWorld_new EXCEPT
                       !.map = [p \in Range(Uploaded) |->
                                   LET e == CHOOSE i \in 1..Len(Uploaded) : Uploaded[i] = p
                                   IN  init_data(Chunk_new(p, e), [task |-> e]).chunk],
                       !.finished_meshing = queue]
    /\ ecs = [no_entities EXCEPT
                  !.entities = [e \in 1..Len(Uploaded) |-> chunk_entity_new(Uploaded[e])],
                  !.next_entity = Len(Uploaded) + 1]
    /\ pc = 1
    /\ ran = {}
    /\ requests = 0

SpecUpload == InitUpload /\ [][Tick]_vars /\ WF_vars(Tick)

(***************************************************************************)
(* C11: for a chunk that is generated once and never edited or despawned,  *)
(* once it and its six neighbours are all Generated exactly one meshing    *)
(* task is spawned for it: eventually one, and never a second, whatever    *)
(* the order in which the chunks finish generating.                        *)
(***************************************************************************)
Ready(pos) ==
    /\ { pos } \cup neighbors(pos) \subseteq DOMAIN world.map
    /\ \A q \in { pos } \cup neighbors(pos) : is_initialized(world.map[q])

mesh_tasks_of(pos) == ecs.entities[world.map[pos].chunk_entity].mesh_tasks

C11_OneMeshingTask ==
    /\ [](\A e \in DOMAIN ecs.entities : ecs.entities[e].mesh_tasks <= 1)
    /\ \A pos \in Positions : Ready(pos) ~> (Ready(pos) /\ mesh_tasks_of(pos) = 1)

\* the chunk and its neighbours are Generated, the neighbour to the east last
\* of all, and the one task of the chunk has been spawned
C11_Witness ==
    /\ Ready(Center)
    /\ mesh_tasks_of(Center) = 1
    /\ world.map[<<1, 0, 0>>].chunk_entity > world.map[Center].chunk_entity
    /\ Center \in DOMAIN world.currently_meshing

(***************************************************************************)
(* C12: queue_mesh_creation spawns a meshing task for a chunk only when    *)
(* the chunk and its six neighbours are resident in the ChunkMap and       *)
(* initialized; otherwise it spawns none and the chunk keeps its           *)
(* ChunkNeedsMeshing.                                                      *)
(***************************************************************************)
C12_MeshOnlyWhenReady ==
    [][ \A e \in DOMAIN ecs.entities :
           LET pos == ecs.entities[e].pos
               spawned == ecs'.entities[e].mesh_tasks # ecs.entities[e].mesh_tasks
           IN  /\ spawned => (ecs.entities[e].needs_meshing /\ Ready(pos)
                                /\ world.map[pos].chunk_entity = e)
               /\ (ecs.entities[e].needs_meshing /\ ~Ready(pos))
                      => (~spawned /\ ecs'.entities[e].needs_meshing)
        /\ \A q \in DOMAIN world'.currently_meshing \ DOMAIN world.currently_meshing :
               Ready(q) ]_vars

\* the chunk is Generated and keeps its mark: the neighbour to the east is
\* resident but has no data yet
C12_Witness ==
    /\ Center \in DOMAIN world.map /\ is_initialized(world.map[Center])
    /\ <<1, 0, 0>> \in DOMAIN world.map /\ ~is_initialized(world.map[<<1, 0, 0>>])
    /\ ecs.entities[world.map[Center].chunk_entity].needs_meshing
    /\ mesh_tasks_of(Center) = 0
    /\ pc = 1 /\ requests = MaxRequests

\* the vertex-buffer bytes of the first k results of the queue q
RECURSIVE bytes(_, _)
bytes(q, k) ==
    IF k = 0 THEN 0
    ELSE bytes(q, k - 1) + (IF q[k][2] = None THEN 0 ELSE q[k][2][1])

\* the meshes among the first k results of q, in their order
RECURSIVE meshes_of(_, _)
meshes_of(q, k) ==
    IF k = 0 THEN << >>
    ELSE IF q[k][2] = None THEN meshes_of(q, k - 1)
    ELSE Append(meshes_of(q, k - 1), << q[k][1], q[k][2][1] >>)

\* a run of upload_meshes took the first k results of the queue and uploaded
\* their meshes in order
took_prefix(k) ==
    /\ world'.finished_meshing = SubSeq(world.finished_meshing, k + 1,
                                        Len(world.finished_meshing))
    /\ ecs'.added = meshes_of(world.finished_meshing, k)

over_budget == bytes(world.finished_meshing, Len(world.finished_meshing)) > MIB_PER_FRAME

(***************************************************************************)
(* C13 as stated: on a queue whose meshes together exceed MIB_PER_FRAME,   *)
(* one run of upload_meshes uploads a strict prefix of the queue in queue  *)
(* order and leaves the rest queued in its order.                          *)
(***************************************************************************)
C13_StrictPrefix ==
    [][ (over_budget /\ "upload_meshes" \notin ran /\ world' # world)
           => \E k \in 0..(Len(world.finished_meshing) - 1) : took_prefix(k) ]_vars

(***************************************************************************)
(* C13 amended: the run takes the shortest prefix whose meshes reach       *)
(* MIB_PER_FRAME, which is the whole queue when only the last mesh         *)
(* reaches it, uploads the meshes of the prefix in queue order and leaves  *)
(* the rest queued in its order.                                           *)
(***************************************************************************)
C13_PrefixToBudget ==
    [][ (over_budget /\ "upload_meshes" \notin ran /\ world' # world)
           => \E k \in 1..Len(world.finished_meshing) :
                 /\ bytes(world.finished_meshing, k) >= MIB_PER_FRAME
                 /\ bytes(world.finished_meshing, k - 1) < MIB_PER_FRAME
                 /\ took_prefix(k) ]_vars

\* a run has uploaded the first two meshes of a queue of three and left the third
C13_Witness ==
    /\ Len(ecs.added) = 2
    /\ Len(world.finished_meshing) = 1
    /\ world.finished_meshing[1][2] # None
    /\ ecs.added[1][2] + ecs.added[2][2] >= MIB_PER_FRAME
    /\ ecs.added[1][2] < MIB_PER_FRAME

(***************************************************************************)
(* C14: queue_chunk_despawn(pos) of a resident chunk followed at once by   *)
(* queue_chunk_generation(pos), both pending for the same tick: no         *)
(* DuplicateChunk is logged, and by the end of the chain pos is resident   *)
(* as a fresh Chunk, of another entity, whose generation has started.      *)
(***************************************************************************)
despawn_then_generate(pos) ==
    /\ pos \in DOMAIN world.map
    /\ world.to_despawn = << pos >>
    /\ world.to_generate = << pos >>
    /\ ecs.errors = {}

C14_DespawnThenGenerate ==
    \A pos \in Positions : \A e \in 1..MaxRequests :
        (pc = 1 /\ despawn_then_generate(pos) /\ world.map[pos].chunk_entity = e)
            ~> /\ << "DuplicateChunk", pos >> \notin ecs.errors
               /\ pos \in DOMAIN world.map
               /\ world.map[pos].chunk_entity # e

\* the cells of the chunk c that do not hold air, and the position of a cell
solid(c) == { i \in Cells : ~is_air(cell_state(c, i).val) }
cell_pos(i) == << index_x(i), index_y(i), index_z(i) >>

\* the chunk that the last create_chunk_mesh meshed, and its six neighbours
meshed == IF last.pos = <<0, 0, 0>> THEN chunk
          ELSE around[CHOOSE k \in 1..6 : delta(Directions[k]) = last.pos]
meshed_around == IF last.pos = <<0, 0, 0>> THEN around
                 ELSE around_neighbor(CHOOSE k \in 1..6 : delta(Directions[k]) = last.pos)

\* the state of the cell next to pos on the side Directions[k], read from the
\* neighbour on that side, at the wrapped coordinate, across a face of the chunk
adjacent_state(c, neighbors_, pos, k) ==
    LET next == << pos[1] + delta(Directions[k])[1], pos[2] + delta(Directions[k])[2],
                   pos[3] + delta(Directions[k])[3] >>
    IN  IF in_range(next) THEN cell_state(c, pos_index(next)).val
        ELSE cell_state(neighbors_[k], pos_index(wrapped(next))).val

\* the model of the state lists the side Directions[k] as full
full_side(state, k) ==
    /\ state \in DOMAIN cache
    /\ bit(cache[state].full_sides, side_bit(Directions[k])) = 1

\* the face is due: it has no cull_mode, or the cell on the side of its
\* cull_mode has no model or a model that is not full on the opposite side
due(c, neighbors_, pos, face) ==
    \/ face.cull_mode = None
    \/ LET k == CHOOSE j \in 1..6 : Directions[j] = face.cull_mode[1]
       IN  ~full_side(adjacent_state(c, neighbors_, pos, k), opposite(k))

(***************************************************************************)
(* C15: two adjacent chunks, each with one block at the face they share,   *)
(* the two blocks in adjacent cells and each with a face towards the       *)
(* other: when both models are full on that side neither of the two faces  *)
(* is in the meshes of the two chunks, and when exactly one of them is not *)
(* full exactly one of the two faces is.                                   *)
(***************************************************************************)
C15_BoundaryFaces ==
    [][ \A k \in 1..6 :
           (/\ last.op = "create_chunk_mesh" /\ last.pos = <<0, 0, 0>>
            /\ last'.op = "create_chunk_mesh" /\ last'.pos = delta(Directions[k])
            /\ last.res.tag = "Ok" /\ last'.res.tag = "Ok")
           => LET cell_a == cell_pos(CHOOSE i \in solid(chunk) : TRUE)
                  cell_b == cell_pos(CHOOSE i \in solid(around[k]) : TRUE)
                  a == cell_state(chunk, pos_index(cell_a)).val
                  b == cell_state(around[k], pos_index(cell_b)).val
                  face_a == FaceMinimal(Directions[k], Some(Directions[k]))
                  face_b == FaceMinimal(Directions[opposite(k)], Some(Directions[opposite(k)]))
                  emitted_a == << cell_a, face_a >> \in Range(last.res.val)
                  emitted_b == << cell_b, face_b >> \in Range(last'.res.val)
              IN  (/\ Cardinality(solid(chunk)) = 1
                   /\ Cardinality(solid(around[k])) = 1
                   /\ a \in DOMAIN cache /\ face_a \in Range(cache[a].faces)
                   /\ b \in DOMAIN cache /\ face_b \in Range(cache[b].faces))
                  => /\ (full_side(a, k) /\ full_side(b, opposite(k)))
                            => (~emitted_a /\ ~emitted_b)
                     /\ (full_side(a, k) # full_side(b, opposite(k)))
                            => (emitted_a # emitted_b) ]_vars

\* the neighbour to the east holds a block of leaves next to the chunk's stone
\* cube: its mesh lacks the face of the leaves towards the cube, which is full,
\* and has the five others
C15_Witness ==
    /\ last.op = "create_chunk_mesh" /\ last.pos = <<1, 0, 0>>
    /\ cell_state(chunk, pos_index(<<31, 31, 31>>)).val = StoneState
    /\ cell_state(around[3], pos_index(<<0, 31, 31>>)).val = DirtState
    /\ cache[StoneState] = Cube /\ DirtState \in DOMAIN cache /\ cache[DirtState] = Leaves
    /\ << <<0, 31, 31>>, FaceMinimal("West", Some("West")) >> \notin Range(last.res.val)
    /\ Len(last.res.val) = 5

(***************************************************************************)
(* C16: create_chunk_mesh pushes a face of the model of a cell that is not *)
(* air exactly when the face has no cull_mode, or the cell next to it on   *)
(* the side of the cull_mode (in the neighbour chunk, at the wrapped       *)
(* coordinate, across a face of the chunk) has no model or a model that    *)
(* is not full on the opposite side; and it pushes nothing else.           *)
(***************************************************************************)
C16_FaceCulling ==
    last.op = "create_chunk_mesh"
        => /\ last.res.tag = "Ok"
           /\ \A i \in solid(meshed) :
                 LET state == cell_state(meshed, i).val
                 IN  state \in DOMAIN cache
                        => \A f \in 1..Len(cache[state].faces) :
                              (<< cell_pos(i), cache[state].faces[f] >> \in Range(last.res.val))
                                 <=> due(meshed, meshed_around, cell_pos(i), cache[state].faces[f])
           /\ \A entry \in Range(last.res.val) :
                 LET state == cell_state(meshed, pos_index(entry[1])).val
                 IN  /\ ~is_air(state) /\ state \in DOMAIN cache
                     /\ entry[2] \in Range(cache[state].faces)

\* the mesh of a stone cube in the corner <<0, 0, 0>> whose face to the west is
\* culled by the dirt cube in the last cell of the neighbour on that side
C16_Witness ==
    /\ last.op = "create_chunk_mesh" /\ last.pos = <<0, 0, 0>>
    /\ cell_state(chunk, 0).val = StoneState
    /\ ~around[4].is_single
    /\ cell_state(around[4], pos_index(<<31, 0, 0>>)).val = DirtState
    /\ cache[StoneState] = Cube /\ DirtState \in DOMAIN cache /\ cache[DirtState] = Cube
    /\ Len(last.res.val) = 5
    /\ \A entry \in Range(last.res.val) : entry[2].cull_mode # Some("West")

(***************************************************************************)
(* C20: for every world position p, pos_to_chunk_pos(p) is floor(p / 32)   *)
(* on each axis and pos_to_chunk_local(p) is p - 32 * chunk_pos, so that   *)
(* every local coordinate is in 0..31 and 32 * chunk_pos + local is p.     *)
(* The code converts the i32 to f32 first, which rounds beyond 2^24.       *)
(***************************************************************************)
C20_FloorDivision ==
    last.op = "pos_to_chunk_pos" =>
        \A a \in 1..3 :
            LET p == last.pos[a]
                chunk_pos == last.res.val[1][a]
                local == last.res.val[2][a]
            IN  /\ chunk_pos = p \div 32
                /\ local = p - 32 * chunk_pos
                /\ local \in 0..31
                /\ 32 * chunk_pos + local = p

\* the same below 2^24 on every axis, negative coordinates included
floor_division_near ==
    (/\ last.op = "pos_to_chunk_pos"
     /\ \A a \in 1..3 : last.pos[a] \in (-(2 ^ 24))..(2 ^ 24)) =>
        \A a \in 1..3 :
            /\ last.res.val[1][a] = last.pos[a] \div 32
            /\ last.res.val[2][a] = last.pos[a] % 32

\* the last block of the chunk 524288 is put in the chunk 524289, at -1
C20_Rounded ==
    /\ last.op = "pos_to_chunk_pos" /\ last.pos = <<2 ^ 24 + 31, 0, 0>>
    /\ last.res.val = << <<524289, 0, 0>>, <<-1, 0, 0>> >>

(***************************************************************************)
(* C17: BlockWorld::get_block and BlockWorld::set_block fail with          *)
(* UnloadedChunk when the chunk that contains the position is not in the   *)
(* ChunkMap, and with Uninitialized of the chunk when it is resident with  *)
(* no data; a set_block that fails changes the data of no chunk.  The      *)
(* chunk that contains p is floor(p / 32) on each axis.                    *)
(***************************************************************************)
containing(pos) == << pos[1] \div 32, pos[2] \div 32, pos[3] \div 32 >>

block_call == /\ ops' = ops + 1
              /\ last'.op \in { "BlockWorld::set_block", "BlockWorld::get_block" }

same_data == /\ DOMAIN world'.map = DOMAIN world.map
             /\ \A p \in DOMAIN world.map : world'.map[p].data = world.map[p].data

C17_UnloadedUninitialized ==
    [][block_call =>
          LET chunk_pos == containing(last'.pos)
          IN  /\ chunk_pos \notin DOMAIN world.map =>
                     /\ last'.res.tag = "Err"
                     /\ last'.res.val.kind = "UnloadedChunk"
              /\ (chunk_pos \in DOMAIN world.map /\ world.map[chunk_pos].data = None) =>
                     last'.res = Err(Uninitialized(chunk_pos))
              /\ last'.res.tag = "Err" => same_data]_vars

\* the same with the chunk that the call looks up, pos_to_chunk_pos(p)
looked_up_errors ==
    [][block_call =>
          LET chunk_pos == pos_to_chunk_pos(last'.pos)
          IN  /\ chunk_pos \notin DOMAIN world.map =>
                     last'.res = Err(UnloadedChunk(chunk_pos))
              /\ (chunk_pos \in DOMAIN world.map /\ world.map[chunk_pos].data = None) =>
                     last'.res = Err(Uninitialized(chunk_pos))
              /\ last'.res.tag = "Err" => same_data]_vars

\* the chunk 524288 is not resident, and a call for its last block fails with
\* OutOfBounds of the chunk 524289
C17_Witness ==
    /\ last.op \in { "BlockWorld::set_block", "BlockWorld::get_block" }
    /\ last.pos = <<2 ^ 24 + 31, 0, 0>>
    /\ containing(last.pos) \notin DOMAIN world.map
    /\ last.res = Err(OutOfBounds(as_usize(-1), 0, 0))

(***************************************************************************)
(* C18: a call of BlockWorld::set_block that succeeds sends exactly one    *)
(* SetBlockEvent, which carries the position, the old state that the call  *)
(* returns and the new state; a call that fails sends none.                *)
(***************************************************************************)
C18_OneEventPerSuccess ==
    [][(ops' = ops + 1 /\ last'.op = "BlockWorld::set_block") =>
          IF last'.res.tag = "Ok"
          THEN /\ Len(ecs'.triggered) = Len(ecs.triggered) + 1
               /\ SubSeq(ecs'.triggered, 1, Len(ecs.triggered)) = ecs.triggered
               /\ ecs'.triggered[Len(ecs'.triggered)] =
                      [pos |-> last'.pos, old |-> last'.res.val, new |-> last'.block]
          ELSE ecs'.triggered = ecs.triggered]_vars

\* grass was written over the stone at <<0, 0, 31>>, which sent one event, and
\* then a call for a position of the chunk to the west failed and sent none
C18_Witness ==
    /\ last.op = "BlockWorld::set_block"
    /\ last.res = Err(Uninitialized(West))
    /\ ecs.triggered = << [pos |-> <<0, 0, 31>>, old |-> StoneState, new |-> GrassState] >>

(***************************************************************************)
(* C19: a position is in the ChunkMap at most once.  add_chunk of a        *)
(* position that is resident returns DuplicateChunk and leaves the         *)
(* resident Chunk as it was; remove_chunk of a position that is not        *)
(* resident returns an error and leaves the map as it was.  (A call that   *)
(* succeeds changes the entry of its position and no other.)               *)
(***************************************************************************)
C19_NoSilentOverwrite ==
    [][(ops' = ops + 1 /\ last'.op \in { "add_chunk", "remove_chunk" }) =>
          LET pos == last'.pos
              present == pos \in DOMAIN world.map
          IN  /\ (last'.op = "add_chunk" /\ present) =>
                     /\ last'.res = Err([kind |-> "DuplicateChunk", pos |-> pos])
                     /\ world'.map = world.map
              /\ (last'.op = "add_chunk" /\ ~present) =>
                     /\ last'.res.tag = "Ok"
                     /\ DOMAIN world'.map = DOMAIN world.map \cup { pos }
                     /\ world'.map[pos].pos = pos /\ world'.map[pos].data = None
              /\ (last'.op = "remove_chunk" /\ ~present) =>
                     /\ last'.res.tag = "Err"
                     /\ world'.map = world.map
              /\ (last'.op = "remove_chunk" /\ present) =>
                     /\ last'.res = Ok(world.map[pos])
                     /\ DOMAIN world'.map = DOMAIN world.map \ { pos }
              /\ \A q \in (DOMAIN world.map \cap DOMAIN world'.map) \ { pos } :
                     world'.map[q] = world.map[q]]_vars

\* add_chunk of the origin was refused: the chunk of entity 1, with its data,
\* is still the resident one
C19_Witness ==
    /\ last.op = "add_chunk" /\ last.pos = <<0, 0, 0>>
    /\ last.res = Err([kind |-> "DuplicateChunk", pos |-> <<0, 0, 0>>])
    /\ world.map[<<0, 0, 0>>].chunk_entity = 1
    /\ world.map[<<0, 0, 0>>].data = Some([task |-> 1])

(***************************************************************************)
(* C21: at every point, for the generation stage and for the meshing       *)
(* stage, a position is in at most one of: queued (to_generate; the        *)
(* entities that carry ChunkNeedsMeshing), in flight (currently_generating *)
(* / currently_meshing), finished (finished_generating /                   *)
(* finished_meshing).                                                      *)
(***************************************************************************)
positions_of(queue) == { queue[i][1] : i \in 1..Len(queue) }

to_mesh == { ecs.entities[e].pos : e \in { i \in DOMAIN ecs.entities :
                                              ecs.entities[i].needs_meshing } }

one_place(queued, in_flight, finished) ==
    /\ queued \cap in_flight = {}
    /\ queued \cap finished = {}
    /\ in_flight \cap finished = {}

C21_OnePlacePerStage ==
    /\ one_place(Range(world.to_generate), DOMAIN world.currently_generating,
                 positions_of(world.finished_generating))
    /\ one_place(to_mesh, DOMAIN world.currently_meshing,
                 positions_of(world.finished_meshing))

\* the chunk was despawned while its task ran, and the position, which is not
\* in the map, was requested again: it is queued and in flight
C21_Witness ==
    \E pos \in Positions :
        /\ pos \notin DOMAIN world.map
        /\ pos \in Range(world.to_generate)
        /\ pos \in DOMAIN world.currently_generating

(***************************************************************************)
(* C22: in every tick the stages run in the fixed order: the five systems  *)
(* of the chain, then receive_generated_meshes, then upload_meshes; no     *)
(* stage runs before a stage that precedes it in this order.               *)
(***************************************************************************)
chain_has_run == pc = Len(Stages) + 1

C22_FixedOrder ==
    [][/\ ReceiveGeneratedMeshes => chain_has_run
       /\ UploadMeshes => (chain_has_run /\ "receive_generated_meshes" \in ran)]_vars

\* upload_meshes has run in this tick; receive_generated_meshes and the first
\* system of the chain have not
C22_Witness ==
    /\ "upload_meshes" \in ran
    /\ "receive_generated_meshes" \notin ran
    /\ pc = 1

(***************************************************************************)
(* C23: a generation request for a position that is resident, or a despawn *)
(* request for a position that is not in the map, is skipped alone: the    *)
(* resident chunk is not replaced and no second generation task is spawned *)
(* for it, and every other position queued for the same run is processed.  *)
(***************************************************************************)
generate_ran == pc = 1 /\ pc' = 2
despawn_ran == pc = 2 /\ pc' = 3

task_of(w, pos) ==
    IF pos \in DOMAIN w.currently_generating THEN Some(w.currently_generating[pos]) ELSE None

C23_SkippedAlone ==
    [][/\ generate_ran =>
             /\ world'.to_generate = << >>
             /\ \A pos \in DOMAIN world.map :
                    /\ pos \in DOMAIN world'.map /\ world'.map[pos] = world.map[pos]
                    /\ task_of(world', pos) = task_of(world, pos)
             /\ \A pos \in Range(world.to_generate) \ DOMAIN world.map :
                    /\ pos \in DOMAIN world'.map /\ world'.map[pos].data = None
                    /\ pos \in DOMAIN world'.currently_generating
                    /\ world'.currently_generating[pos].id = world'.map[pos].chunk_entity
       /\ despawn_ran =>
             /\ world'.to_despawn = << >>
             /\ DOMAIN world'.map = DOMAIN world.map \ Range(world.to_despawn)
             /\ \A pos \in DOMAIN world'.map : world'.map[pos] = world.map[pos]]_vars

\* <<0, 0, 0>> was requested while resident, which spawned entity 2 and was
\* skipped; <<1, 0, 0>>, requested after it, has its chunk and its task
C23_Witness ==
    /\ pc = 2
    /\ << "DuplicateChunk", <<0, 0, 0>> >> \in ecs.errors
    /\ <<0, 0, 0>> \in DOMAIN world.map /\ world.map[<<0, 0, 0>>].chunk_entity = 1
    /\ <<1, 0, 0>> \in DOMAIN world.map /\ world.map[<<1, 0, 0>>].chunk_entity = 3
    /\ task_of(world, <<1, 0, 0>>) = Some([id |-> 3, done |-> FALSE])

(***************************************************************************)
(* C24: the result of a generation task whose chunk was despawned while    *)
(* the task ran is discarded when it arrives: it is installed into no      *)
(* chunk, not even one created later at the same position, and the other   *)
(* results of the run are processed.  A result is named by the entity of   *)
(* the chunk its task was spawned for.                                     *)
(***************************************************************************)
insert_ran == pc = 4 /\ pc' = 5

own_data == \A pos \in DOMAIN world.map :
                world.map[pos].data # None =>
                    world.map[pos].data = Some([task |-> world.map[pos].chunk_entity])

C24_StaleResultDiscarded ==
    /\ []own_data
    /\ [][insert_ran =>
             /\ world'.finished_generating = << >>
             /\ DOMAIN world'.map = DOMAIN world.map
             /\ \A i \in 1..Len(world.finished_generating) :
                    LET pos == world.finished_generating[i][1]
                        data == world.finished_generating[i][2]
                    IN  (pos \in DOMAIN world.map /\ world.map[pos].chunk_entity = data.task)
                            => world'.map[pos].data = Some(data)]_vars

\* the result of the task of entity 1 found no chunk at <<0, 0, 0>>; the chunk
\* created there later, entity 2, holds the data of its own task
C24_Witness ==
    /\ << "doesn't exist", <<0, 0, 0>> >> \in ecs.errors
    /\ <<0, 0, 0>> \in DOMAIN world.map
    /\ world.map[<<0, 0, 0>>].chunk_entity = 2
    /\ world.map[<<0, 0, 0>>].data = Some([task |-> 2])

(***************************************************************************)
(* C25: when a chunk, or one of the six neighbours that its meshing task   *)
(* reads, is despawned while the task is in flight or while the finished   *)
(* mesh waits for its upload, the mesh is discarded when it arrives, and   *)
(* neither the task nor upload_meshes fails.                               *)
(***************************************************************************)
meshing_task_failed == \E pos \in DOMAIN world.currently_meshing :
                           world.currently_meshing[pos].panicked

C25_DespawnedMeshDiscarded == ~ecs.crashed /\ ~meshing_task_failed

\* upload_meshes has popped the mesh of Center, which is no more in the map,
\* and has panicked; no meshing task has failed
C25_Witness ==
    /\ ecs.crashed
    /\ ~meshing_task_failed
    /\ Center \notin DOMAIN world.map
    /\ world.finished_meshing = << >>
    /\ Center \notin DOMAIN world.currently_meshing

\* the meshing task of Center, whose neighbour to the east was despawned
\* before the task ran, has panicked
task_failed_after_despawn ==
    /\ Center \in DOMAIN world.currently_meshing
    /\ world.currently_meshing[Center].panicked
    /\ Center \in DOMAIN world.map
    /\ <<1, 0, 0>> \notin DOMAIN world.map

(***************************************************************************)
(* C26: a meshing task never takes the lock of the ChunkMap: the handles   *)
(* of the data of the chunk and of its six neighbours are cloned by the    *)
(* driver when it spawns the task, and the worker locks only the data of   *)
(* those chunks.                                                           *)
(***************************************************************************)
C26_NoMapLockInTask == readers = {}

\* the meshing task of Center runs and holds the read lock of the ChunkMap
C26_Witness ==
    /\ Center \in DOMAIN world.currently_meshing
    /\ world.currently_meshing[Center].running
    /\ ~world.currently_meshing[Center].done

(***************************************************************************)
(* C27: the driver never waits for a worker: every system of a tick, those *)
(* that take the write lock of the ChunkMap included, completes whatever   *)
(* the progress of the tasks in flight.                                    *)
(***************************************************************************)
waits_for_write_guard ==
    /\ ~ecs.crashed
    /\ \/ runs("process_generate_queue") /\ ~write_guard(world.to_generate)
       \/ runs("process_despawn_queue") /\ ~write_guard(world.to_despawn)
       \/ runs("insert_chunk_data") /\ ~write_guard(world.finished_generating)

C27_DriverNeverWaits == ~waits_for_write_guard

\* process_generate_queue has a request to handle and waits in write_guard()
\* for the meshing task of Center, which holds the read lock
C27_Witness ==
    /\ runs("process_generate_queue")
    /\ world.to_generate # << >>
    /\ readers = { Center }

(***************************************************************************)
(* C28: the result of the meshing task of a chunk is None exactly when no  *)
(* cell of the chunk holds a block other than air, whether the chunk is    *)
(* single or dense, and is a mesh otherwise.                               *)
(***************************************************************************)
C28_NoneIffNoBlock ==
    last.op = "meshing task" =>
        /\ last.res.tag = "Ok"
        /\ last.res.val = None <=> solid(chunk) = {}

\* a dense chunk whose cells all hold air: the task returns a mesh, of no face
C28_Witness ==
    /\ last.op = "meshing task"
    /\ ~chunk.is_single
    /\ solid(chunk) = {}
    /\ last.res = Ok(Some(<< >>))

(***************************************************************************)
(* C29: whatever the requests and the order in which the tasks return,     *)
(* data is installed at most once into a Chunk: init_data never returns    *)
(* AlreadyInitialized to insert_chunk_data, and the data of a Chunk, once  *)
(* installed, stays what it is.                                            *)
(***************************************************************************)
never_already_initialized == \A e \in ecs.errors : e[1] # "AlreadyInitialized"

C29_InstalledOnce ==
    /\ []never_already_initialized
    /\ [][\A pos \in DOMAIN world.map \cap DOMAIN world'.map :
             (/\ world'.map[pos].chunk_entity = world.map[pos].chunk_entity
              /\ world.map[pos].data # None)
                 => world'.map[pos].data = world.map[pos].data]_vars

\* <<0, 0, 0>> holds its data and was requested again, and after that request
\* insert_chunk_data has run with a result to install
C29_Witness ==
    /\ << "DuplicateChunk", <<0, 0, 0>> >> \in ecs.errors
    /\ <<0, 0, 0>> \in DOMAIN world.map
    /\ world.map[<<0, 0, 0>>].data = Some([task |-> 1])
    /\ <<1, 0, 0>> \in DOMAIN world.map
    /\ world.map[<<1, 0, 0>>].data = Some([task |-> 3])

(***************************************************************************)
(* C30: in one run of upload_meshes, once the vertex-buffer bytes uploaded *)
(* have reached MIB_PER_FRAME no further result is taken from the queue    *)
(* and the rest stays queued, so the bytes uploaded in the run, less the   *)
(* last mesh uploaded, are under MIB_PER_FRAME.                            *)
(***************************************************************************)
\* the vertex-buffer bytes of the first n meshes uploaded in the run
RECURSIVE uploaded_bytes(_, _)
uploaded_bytes(added, n) ==
    IF n = 0 THEN 0 ELSE uploaded_bytes(added, n - 1) + added[n][2]

C30_BudgetStopsUpload ==
    [][ UploadMeshes
           => LET added == ecs'.added
                  n == Len(added)
              IN  /\ \E k \in 0..Len(world.finished_meshing) :
                         /\ took_prefix(k)
                         /\ \A j \in 0..(k - 1) :
                                bytes(world.finished_meshing, j) < MIB_PER_FRAME
                  /\ \A i \in 1..n : uploaded_bytes(added, i - 1) < MIB_PER_FRAME
                  /\ n > 0 => uploaded_bytes(added, n) - MIB_PER_FRAME < added[n][2] ]_vars

\* a run has uploaded more than MIB_PER_FRAME, its last mesh being the one
\* that crossed it, and has left a mesh queued
C30_Witness ==
    /\ Len(ecs.added) = 2
    /\ uploaded_bytes(ecs.added, 1) < MIB_PER_FRAME
    /\ uploaded_bytes(ecs.added, 2) > MIB_PER_FRAME
    /\ ecs.added[2][2] = 2 * MIB_PER_FRAME
    /\ world.finished_meshing # << >>
    /\ Head(world.finished_meshing)[2] # None

(***************************************************************************)
(* C31: after any sequence of uploads, remeshes and several finished       *)
(* meshes of one position in one run of upload_meshes included, a chunk    *)
(* entity has at most one child with a ChunkMeshMarker.                    *)
(***************************************************************************)
C31_OneMeshObject == \A e \in DOMAIN ecs.entities : ecs.entities[e].meshes <= 1

\* one run of upload_meshes has uploaded two meshes of Center, whose entity
\* had no mesh child, and the entity has two
C31_Witness ==
    /\ ~ecs.crashed
    /\ Len(ecs.added) = 2
    /\ ecs.added[1][1] = Center /\ ecs.added[2][1] = Center
    /\ Center \in DOMAIN world.map
    /\ ecs.entities[world.map[Center].chunk_entity].meshes = 2

(***************************************************************************)
(* C32: after a block edit that succeeds the entity of the edited chunk    *)
(* carries ChunkNeedsMeshing, and when the local coordinate of the edit is *)
(* 0 or 31 on an axis so does the entity of the resident chunk across that *)
(* face.                                                                   *)
(***************************************************************************)
\* the chunks across the faces that the block pos lies on
across_faces(pos) ==
    LET chunk_pos == pos_to_chunk_pos(pos)
        local == pos_to_chunk_local(pos)
    IN  { [chunk_pos EXCEPT ![axis] = @ - 1] : axis \in { a \in 1..3 : local[a] = 0 } }
        \cup { [chunk_pos EXCEPT ![axis] = @ + 1] :
                   axis \in { a \in 1..3 : local[a] = CHUNK_SIZE - 1 } }

needs_mesh(w, e, pos) == pos \in DOMAIN w.map => e.entities[w.map[pos].chunk_entity].needs_meshing

C32_EditMarksChunks ==
    [][ (/\ ops' = ops + 1
         /\ last'.op \in { "BlockWorld::set_block", "temp_set_block" }
         /\ last'.res.tag = "Ok")
           => /\ needs_mesh(world', ecs', pos_to_chunk_pos(last'.pos))
              /\ \A pos \in across_faces(last'.pos) : needs_mesh(world', ecs', pos) ]_vars

\* temp_set_block has written at <<0, 0, 31>>, whose local x is 0: the entity of
\* the chunk of the origin is marked, the entity of the chunk to the west is not
C32_Witness ==
    /\ last.op = "temp_set_block"
    /\ last.pos = <<0, 0, 31>>
    /\ last.res.tag = "Ok"
    /\ West \in across_faces(last.pos)
    /\ ecs.entities[world.map[Origin].chunk_entity].needs_meshing
    /\ ~ecs.entities[world.map[West].chunk_entity].needs_meshing

\* BlockWorld::set_block has succeeded and no entity is marked
C32_SetBlockMarksNone ==
    /\ last.op = "BlockWorld::set_block"
    /\ last.res.tag = "Ok"
    /\ ecs.triggered # << >>
    /\ \A e \in DOMAIN ecs.entities : ~ecs.entities[e].needs_meshing

(***************************************************************************)
(* C33: a set_block that succeeds changes the state that get_block decodes *)
(* at the addressed cell only: every other cell decodes to the state it    *)
(* had, also when the write takes a free palette entry, appends an entry   *)
(* or doubles the width of the cells.                                      *)
(***************************************************************************)
set_block_ok == ops' = ops + 1 /\ last'.op = "set_block" /\ last'.res.tag = "Ok"

\* every cell but the one written decodes after the step to what it decoded to
others_kept ==
    \A i \in Cells \ { pos_index(last'.pos) } :
        \A s \in { cell_state(chunk, i) } : same_result(cell_state(chunk', i), s)

C33_OnlyAddressedCell == [][set_block_ok => others_kept]_vars

\* the same for the chunks that with_data has built
C33_DenseOthersKept == [][(set_block_ok /\ origin = "with_data") => others_kept]_vars

\* the first set_block on single(air) has succeeded, at <<0, 0, 31>>, and the
\* cell <<1, 0, 0>>, which was air, cannot be read
C33_Witness ==
    /\ origin = "single" /\ ops = 1
    /\ last.op = "set_block" /\ last.res = Ok(AirState) /\ last.pos = <<0, 0, 31>>
    /\ last.block # AirState
    /\ cell_state(chunk, pos_index(<<1, 0, 0>>)).tag = "Panic"

(***************************************************************************)
(* C34: when a set_block on a dense chunk introduces a state that no       *)
(* palette entry holds and some entry of the palette is free, whichever    *)
(* its index, the palette does not grow; the palette grows only when no    *)
(* entry is free.                                                          *)
(***************************************************************************)
\* the step is a set_block that succeeds, on a chunk built by with_data, with
\* a state that no entry of the palette holds
introduces ==
    /\ set_block_ok /\ origin = "with_data"
    /\ \A i \in 1..Len(chunk.palette) : chunk.palette[i].block # last'.block

\* the Rust indices of the free entries before the step
free_before == { i \in 0..(Len(chunk.palette) - 1) : is_free(chunk.palette[i + 1]) }

C34_FreeSlotReused ==
    [][ introduces
           => /\ free_before # {} => Len(chunk'.palette) = Len(chunk.palette)
              /\ Len(chunk'.palette) > Len(chunk.palette) => free_before = {} ]_vars

\* the same with entry 0 left out of the free entries
C34_FreeSlotAboveZero ==
    [][ introduces
           => /\ free_before \ { 0 } # {}
                    => /\ Len(chunk'.palette) = Len(chunk.palette)
                       /\ \E i \in 1..(Len(chunk.palette) - 1) :
                              chunk'.palette[i + 1].block = last'.block
              /\ Len(chunk'.palette) > Len(chunk.palette) => free_before \subseteq { 0 } ]_vars

\* grass was written into make_data, whose only free entry is entry 0: the
\* palette has grown to four entries and entry 0 is still free
C34_Witness ==
    /\ origin = "with_data" /\ ops = 1
    /\ last.op = "set_block" /\ last.res.tag = "Ok" /\ last.block = GrassState
    /\ Len(chunk.palette) = Len(make_data.palette) + 1
    /\ is_free(chunk.palette[1])
    /\ chunk.palette[Len(chunk.palette)].block = GrassState

\* grass was written into a free entry above entry 0
C34_Reused ==
    /\ origin = "with_data" /\ ops = 1
    /\ last.op = "set_block" /\ last.res.tag = "Ok" /\ last.block = GrassState
    /\ \E i \in 2..Len(chunk.palette) :
           chunk.palette[i].block = GrassState /\ i < Len(chunk.palette)

(***************************************************************************)
(* C35: in every ChunkData reached from single or with_data by set_block   *)
(* calls and by packing and unpacking, double_bytes is set exactly when    *)
(* the palette holds more than 256 entries, and every cell index stored is *)
(* smaller than the length of the palette.                                 *)
(***************************************************************************)
\* the cells that data holds the bytes of
stored_cells(c) ==
    IF c.is_single THEN {}
    ELSE 0..((Len(c.data) \div (IF c.double_bytes THEN 2 ELSE 1)) - 1)

width_matches(c) ==
    /\ c.double_bytes <=> Len(c.palette) > U8_RANGE
    /\ \A i \in stored_cells(c) : block_at_index(c, i).val < Len(c.palette)

C35_WidthMatchesPalette == ~panicked => width_matches(chunk)

\* the same for the chunks that were never unpacked
C35_WidthWithoutUnpack == (~panicked /\ origin # "unpacked") => width_matches(chunk)

\* grass was written into make_data and the chunk was packed and unpacked:
\* the palette has lost its free entry and the cell of grass still holds the
\* index 3, the length of the palette
C35_Witness ==
    /\ origin = "unpacked" /\ ops = 2 /\ ~panicked
    /\ Len(chunk.palette) = 3
    /\ ~chunk.double_bytes
    /\ block_at_index(chunk, pos_index(<<0, 0, 31>>)) = Ok(3)

(***************************************************************************)
(* C36: from a ChunkData whose palette entries hold pairwise distinct      *)
(* block states, after any sequence of set_block calls no two entries of   *)
(* the palette, live or free, hold equal block states.                     *)
(***************************************************************************)
C36_DistinctStates ==
    \A i, j \in 1..Len(chunk.palette) :
        chunk.palette[i].block = chunk.palette[j].block => i = j

\* grass was written and then overwritten: its entry stays in the palette,
\* free, beside the entries of the other states
C36_Witness ==
    /\ ops = 2 /\ last.op = "set_block" /\ last.res = Ok(GrassState)
    /\ \E i \in 1..Len(chunk.palette) :
           chunk.palette[i].block = GrassState /\ is_free(chunk.palette[i])
    /\ \E i \in 1..Len(chunk.palette) :
           chunk.palette[i].block = last.block /\ ~is_free(chunk.palette[i])

(***************************************************************************)
(* C37: after any sequence of generation and despawn requests, a request   *)
(* for a resident position included, the chunk entities and the entries of *)
(* the ChunkMap correspond one to one: every entity with a ChunkMarker is   *)
(* the entity that the map records for its position, and every entry of    *)
(* the map records an entity that exists.                                  *)
(***************************************************************************)
C37_EntitiesMatchMap ==
    /\ \A e \in DOMAIN ecs.entities :
           /\ ecs.entities[e].pos \in DOMAIN world.map
           /\ world.map[ecs.entities[e].pos].chunk_entity = e
    /\ \A pos \in DOMAIN world.map : world.map[pos].chunk_entity \in DOMAIN ecs.entities

\* <<0, 0, 0>> was requested while resident: DuplicateChunk was logged, and two
\* entities carry the ChunkMarker of <<0, 0, 0>>, one of them unknown to the map
C37_Witness ==
    /\ << "DuplicateChunk", <<0, 0, 0>> >> \in ecs.errors
    /\ <<0, 0, 0>> \in DOMAIN world.map
    /\ world.map[<<0, 0, 0>>].chunk_entity = 1
    /\ 2 \in DOMAIN ecs.entities
    /\ ecs.entities[2].pos = <<0, 0, 0>>
    /\ pc = 1 /\ ran = {}

(***************************************************************************)
(* C38: every result in finished_meshing leaves the queue after finitely   *)
(* many ticks, in FIFO order: a run of upload_meshes on a queue that is    *)
(* not empty takes at least the head, also when one mesh is larger than    *)
(* MIB_PER_FRAME, and leaves the rest in its order.                        *)
(***************************************************************************)
\* a run of upload_meshes on a queue that is not empty leaves a proper suffix
consumes_head ==
    (UploadMeshes /\ world.finished_meshing # << >>)
        => \E k \in 1..Len(world.finished_meshing) :
              world'.finished_meshing = SubSeq(world.finished_meshing, k + 1,
                                               Len(world.finished_meshing))

C38_QueueDrains ==
    /\ [][consumes_head]_vars
    /\ world.finished_meshing # << >> ~> world.finished_meshing = << >>

\* the same while the driver runs: a mesh whose chunk was despawned, or a
\* meshing task that has panicked, ends the driver with results still queued
C38_DrainsWhileRunning ==
    /\ [][consumes_head]_vars
    /\ world.finished_meshing # << >> ~> (world.finished_meshing = << >> \/ ecs.crashed)

\* upload_meshes has panicked on the mesh of a chunk that is not resident,
\* and a result behind it stays queued
C38_Witness ==
    /\ ecs.crashed /\ ~meshing_task_failed
    /\ "upload_meshes" \in ran
    /\ world.finished_meshing # << >>
    /\ Head(world.finished_meshing)[2] # None

(***************************************************************************)
(* The pipeline of the ChunkCache (world/mod.rs, world/cache.rs).  Here    *)
(* `world` holds the ChunkCache (position -> entity) and the two queues of *)
(* the ChunkQueue that generation uses, and `ecs` the chunk entities, the  *)
(* block position of the player and the PlayerMovedEvents not yet read.    *)
(* handle_input moves the player; every frame runs the chain               *)
(* receive_generated_chunks -> create_chunk_entities and, at any point of  *)
(* it, track_chunks_around_player.  The keys of temp_create_chunk and      *)
(* temp_set_block are not pressed.  The tasks of Positions return, the     *)
(* other tasks are still running.                                          *)
(***************************************************************************)
\* `let rad = 5` of track_chunks_around_player
rad == 5

\* the positions within rad of a chunk position on every axis: the coords of
\* the three loops, and the points that intersect the Aabb3d
tracked(center) ==
    { << center[1] + x, center[2] + y, center[3] + z >> :
         x \in (-rad)..rad, y \in (-rad)..rad, z \in (-rad)..rad }

\* ChunkCache::add_to_cache on s = [world, ecs]
add_to_cache(s, pos, id) ==
    IF pos \in DOMAIN s.world.chunk_cache
    THEN [s EXCEPT !.ecs.crashed = TRUE]
    ELSE [s EXCEPT !.world.chunk_cache = insert(@, pos, id)]

\* ChunkCache::remove_from_cache for every position of to_remove
remove_from_cache(s, to_remove) ==
    [s EXCEPT !.world.chunk_cache = [p \in DOMAIN @ \ to_remove |-> @[p]],
              !.ecs.entities = [e \in { i \in DOMAIN @ : @[i].pos \notin to_remove } |-> @[e]]]

\* the loop of create_chunk_entities on s = [world, ecs]
RECURSIVE create_chunk_entities(_)
create_chunk_entities(s) ==
    IF s.world.finished_generating = << >> \/ s.ecs.crashed THEN s
    ELSE LET coord == Head(s.world.finished_generating)[1]
             data == Head(s.world.finished_generating)[2]
             e == s.ecs.next_entity
             s1 == [s EXCEPT !.world.finished_generating = Tail(@),
                             !.ecs.entities = insert(@, e, [pos |-> coord, data |-> data]),
                             !.ecs.next_entity = e + 1]
         IN  then([t \in { add_to_cache(s1, coord, e) } |-> create_chunk_entities(t)])

\* the body of the loop of track_chunks_around_player for one event: the
\* chunks out of range leave the cache, and a task is spawned for every
\* position in range that is neither cached nor in currently_generating
track_event(s, event) ==
    LET old_chunk == pos_to_chunk_pos(event.old)
        new_chunk == pos_to_chunk_pos(event.new)
    IN  IF old_chunk = new_chunk THEN s
        ELSE LET to_remove == DOMAIN s.world.chunk_cache \ tracked(new_chunk)
                 s1 == remove_from_cache(s, to_remove)
                 spawned == { coord \in tracked(new_chunk) :
                                 /\ coord \notin DOMAIN s1.world.chunk_cache
                                 /\ coord \notin DOMAIN s1.world.currently_generating }
                 task == [id |-> s1.ecs.next_task, done |-> FALSE]
             IN  [s1 EXCEPT !.world.currently_generating =
                                [p \in DOMAIN @ \cup spawned |->
                                    IF p \in spawned THEN task ELSE @[p]],
                            !.ecs.next_task = @ + 1]

\* track_chunks_around_player: `for e in event.read()`
RECURSIVE track_chunks_around_player(_)
track_chunks_around_player(s) ==
    IF s.ecs.events = << >> THEN s
    ELSE then([t \in { track_event([s EXCEPT !.ecs.events = Tail(@)], Head(s.ecs.events)) }
                 |-> track_chunks_around_player(t)])

\* the block positions of the player: two in the chunk <<0, 0, 0>> and one,
\* next to them, in the chunk <<1, 0, 0>>
PlayerPositions == { <<30, 0, 0>>, <<31, 0, 0>>, <<32, 0, 0>> }

InitCache ==
    /\ chunk = single(AirState) /\ origin = "single"
    /\ ops = 0
    /\ last = [op |-> "new", pos |-> <<0, 0, 0>>, block |-> AirState, res |-> Ok(0)]
    /\ MesherInit
    /\ world = [chunk_cache |-> << >>, currently_generating |-> << >>,
                finished_generating |-> << >>]
    /\ ecs = [entities |-> << >>, next_entity |-> 1, crashed |-> FALSE,
              player |-> <<31, 0, 0>>, events |-> << >>, next_task |-> 1]
    /\ pc = 1
    /\ ran = {}
    /\ requests = 0

\* handle_input: the player has moved and a PlayerMovedEvent is written
PlayerMoves ==
    /\ ~ecs.crashed
    /\ requests < MaxRequests
    /\ \E new \in PlayerPositions \ { ecs.player } :
           ecs' = [ecs EXCEPT !.player = new,
                              !.events = Append(@, [old |-> ecs.player, new |-> new])]
    /\ requests' = requests + 1
    /\ UNCHANGED << world, pc, ran, chunk_vars >>

\* the frame is over when the chain and track_chunks_around_player have run
frame_over(p, r) == p = 3 /\ r = { "track_chunks_around_player" }

CacheReceiveGeneratedChunks ==
    /\ ~ecs.crashed
    /\ pc = 1
    /\ \E finished \in Orderings({ p \in DOMAIN world.currently_generating :
                                      world.currently_generating[p].done }) :
           world' = receive_generated_chunks(world, finished)
    /\ pc' = 2
    /\ UNCHANGED << ecs, ran, requests, chunk_vars >>

CreateChunkEntities ==
    /\ ~ecs.crashed
    /\ pc = 2
    /\ \E s \in { create_chunk_entities([world |-> world, ecs |-> ecs]) } :
           world' = s.world /\ ecs' = s.ecs
    /\ pc' = IF frame_over(3, ran) THEN 1 ELSE 3
    /\ ran' = IF frame_over(3, ran) THEN {} ELSE ran
    /\ UNCHANGED << requests, chunk_vars >>

TrackChunksAroundPlayer ==
    /\ ~ecs.crashed
    /\ ran = {}
    /\ \E s \in { track_chunks_around_player([world |-> world, ecs |-> ecs]) } :
           world' = s.world /\ ecs' = s.ecs
    /\ pc' = IF frame_over(pc, { "track_chunks_around_player" }) THEN 1 ELSE pc
    /\ ran' = IF frame_over(pc, { "track_chunks_around_player" }) THEN {}
              ELSE { "track_chunks_around_player" }
    /\ UNCHANGED << requests, chunk_vars >>

NextCache ==
    \/ PlayerMoves
    \/ CacheReceiveGeneratedChunks
    \/ CreateChunkEntities
    \/ TrackChunksAroundPlayer
    \/ GenerationTask

SpecCache == InitCache /\ [][NextCache]_vars

(***************************************************************************)
(* C39: in the pipeline of the ChunkCache, wherever in the frame           *)
(* track_chunks_around_player runs, it spawns no task for a position that  *)
(* is cached, in currently_generating or in finished_generating, and       *)
(* add_to_cache never panics.                                              *)
(***************************************************************************)
\* the positions that the step has spawned a task for
spawned_by_step ==
    { p \in DOMAIN world'.currently_generating :
         \/ p \notin DOMAIN world.currently_generating
         \/ world'.currently_generating[p].id # world.currently_generating[p].id }

C39_NoDuplicateGeneration ==
    /\ []~ecs.crashed
    /\ [][TrackChunksAroundPlayer
             => \A p \in spawned_by_step :
                   /\ p \notin DOMAIN world'.chunk_cache
                   /\ p \notin DOMAIN world.currently_generating
                   /\ p \notin positions_of(world.finished_generating)]_vars

\* add_to_cache has panicked: the position at the head of finished_generating
\* when create_chunk_entities ran was in the cache
C39_Witness ==
    /\ ecs.crashed
    /\ pc # 2
    /\ \E p \in DOMAIN world.chunk_cache :
           \E e \in DOMAIN ecs.entities :
              ecs.entities[e].pos = p /\ world.chunk_cache[p] # e

(***************************************************************************)
(* NoiseHeightMap::get_chunk (world/generation.rs) called from several     *)
(* threads.  Here `world` holds the NoiseHeightMap: its map (chunk         *)
(* position -> cell), the cells (whether the OnceLock holds its            *)
(* HeightMapGroup) and how many times create_noise has run for each        *)
(* position; `ecs` holds the threads, each with the step of get_chunk it   *)
(* is at, its chunk_pos and its data_ref.  A section under the read lock   *)
(* or the write lock of the map is one step, and so is get_or_init.        *)
(***************************************************************************)
\* the threads that call get_chunk
Callers == { 1, 2 }

\* the chunk positions (IVec2) asked for
NoisePositions == { <<0, 0>>, <<1, 0>> }

InitNoise ==
    /\ chunk = single(AirState) /\ origin = "single"
    /\ ops = 0
    /\ last = [op |-> "new", pos |-> <<0, 0, 0>>, block |-> AirState, res |-> Ok(0)]
    /\ MesherInit
    /\ world = [map |-> << >>, cells |-> << >>,
                create_noise |-> [pos \in NoisePositions |-> 0]]
    /\ ecs = [crashed |-> FALSE,
              threads |-> [t \in Callers |->
                              [at |-> "idle", chunk_pos |-> <<0, 0>>, data_ref |-> None]]]
    /\ pc = 1
    /\ ran = {}
    /\ requests = 0

\* a thread calls get_chunk(chunk_pos)
GetChunkCalled(t) ==
    /\ ecs.threads[t].at = "idle"
    /\ requests < MaxRequests
    /\ \E chunk_pos \in NoisePositions :
           ecs' = [ecs EXCEPT !.threads[t] =
                                  [at |-> "read", chunk_pos |-> chunk_pos, data_ref |-> None]]
    /\ requests' = requests + 1
    /\ UNCHANGED << world, pc, ran, chunk_vars >>

\* `read.get(&chunk_pos).cloned()` under the read lock, which is then dropped
GetChunkReads(t) ==
    /\ ecs.threads[t].at = "read"
    /\ LET chunk_pos == ecs.threads[t].chunk_pos
           data_ref == IF chunk_pos \in DOMAIN world.map THEN Some(world.map[chunk_pos])
                       ELSE None
       IN  ecs' = [ecs EXCEPT !.threads[t].data_ref = data_ref,
                              !.threads[t].at = IF data_ref = None THEN "write" ELSE "init"]
    /\ UNCHANGED << world, pc, ran, requests, chunk_vars >>

\* `write.insert(chunk_pos, ret.clone())` of a new cell under the write lock
GetChunkWrites(t) ==
    /\ ecs.threads[t].at = "write"
    /\ LET chunk_pos == ecs.threads[t].chunk_pos
           ret == Len(world.cells) + 1
       IN  /\ world' = [world EXCEPT !.cells = Append(@, FALSE),
                                     !.map = insert(@, chunk_pos, ret)]
           /\ ecs' = [ecs EXCEPT !.threads[t].data_ref = Some(ret),
                                 !.threads[t].at = "init"]
    /\ UNCHANGED << pc, ran, requests, chunk_vars >>

\* `data_ref.get_or_init(|| self.create_noise(chunk_pos))`, and the call returns
GetChunkInits(t) ==
    /\ ecs.threads[t].at = "init"
    /\ LET chunk_pos == ecs.threads[t].chunk_pos
           cell == ecs.threads[t].data_ref[1]
       IN  world' = IF world.cells[cell] THEN world
                    ELSE [world EXCEPT !.cells[cell] = TRUE,
                                       !.create_noise[chunk_pos] = @ + 1]
    /\ ecs' = [ecs EXCEPT !.threads[t].at = "idle"]
    /\ UNCHANGED << pc, ran, requests, chunk_vars >>

NextNoise ==
    \/ \E t \in Callers : GetChunkCalled(t)
    \/ \E t \in Callers : GetChunkReads(t)
    \/ \E t \in Callers : GetChunkWrites(t)
    \/ \E t \in Callers : GetChunkInits(t)

SpecNoise == InitNoise /\ [][NextNoise]_vars

(***************************************************************************)
(* C40: under any interleaving of get_chunk calls, the cell that the map   *)
(* holds for a chunk position is never replaced once inserted, and         *)
(* create_noise runs at most once for a chunk position.                    *)
(***************************************************************************)
C40_CellNeverReplaced ==
    /\ [](\A pos \in NoisePositions : world.create_noise[pos] <= 1)
    /\ [][\A pos \in DOMAIN world.map :
             pos \in DOMAIN world'.map /\ world'.map[pos] = world.map[pos]]_vars

\* two calls for <<0, 0>> have returned: each has inserted a cell of its own,
\* the second in the place of the first, and create_noise has run twice
C40_Witness ==
    /\ world.create_noise[<<0, 0>>] = 2
    /\ Len(world.cells) = 2
    /\ world.map[<<0, 0>>] = 2
    /\ \A t \in Callers : ecs.threads[t].at = "idle"
    /\ ecs.threads[1].data_ref # ecs.threads[2].data_ref

=============================================================================
